---- MODULE Spec2Model ----
(***************************************************************************)
(* Server demise pipeline (kafka-processors): the stage filters, the       *)
(* stage processors on the shared topic, and the cooling-period monitor.   *)
(*                                                                         *)
(* The specifications share the variables:                                 *)
(*   SpecRoute    the four should_process_message filters on every         *)
(*                (action, status) pair;                                   *)
(*   Spec         a pipeline run on the shared topic, from the ingress     *)
(*                message to the terminal message;                         *)
(*   SpecCooling  the cooling monitor: worker loops that accept            *)
(*                start_cooling_period messages and the polling threads;   *)
(*   SpecStage    process_message of the Check, PowerOff and Demise stage  *)
(*                on one accepted message, with the failures of the oracle *)
(*                and of the handler.                                      *)
(***************************************************************************)
EXTENDS Integers, Sequences, FiniteSets, TLC

VARIABLES
    probe,            \* SpecRoute: the message handed to the filters
    verdict,          \* SpecRoute: stage -> "accept" or "reject", "unset" before the filter ran
    call,             \* SpecStage: the call of process_message, [stage, message, fault]
    reply,            \* SpecStage: what the call returned and whether it asked the oracle,
                      \* {} before the call
    topic,            \* the shared topic: the records produced so far, [msg, part, run, from, at]
    owner,            \* Spec: partition -> the stage whose consumer the group assigned it to
    offset,           \* Spec: partition -> number of its records consumed
    nextId,           \* the next fresh uuid
    execLog,          \* Spec: run -> the stage executions of the run, in order, [stage, outcome]
    now,              \* SpecCooling: the wall clock (hours)
    delivered,        \* SpecCooling: the start messages delivered to the cooling consumer so far
    cooling_sessions, \* SpecCooling: server_id -> reference to its cooling_info
    infos,            \* SpecCooling: the cooling_info dicts, by reference
    cooling_threads,  \* SpecCooling: server_id -> monitor thread
    worker,           \* SpecCooling: the worker loops of the cooling stage
    monitor,          \* SpecCooling: the polling threads, by the cooling_info they hold
    inbox,            \* Spec: the start messages the cooling stage accepted in a pipeline run
    sent,             \* SpecCooling: session -> the records the cooling monitor sent for it, in
                      \* order, [msg, at]; 0: the records that belong to no session
    producer,         \* SpecSend: the KafkaProducerWrapper, [log, calls]
    loop,             \* SpecLoop: a poll loop and the messages of its consumer
    manager,          \* SpecManager: the ServerDemisePipelineManager
    sessions_lock     \* SpecLock: the thread that holds sessions_lock of the cooling monitor

vars == <<probe, verdict, call, reply, topic, owner, offset, nextId, execLog, now, delivered,
          cooling_sessions, infos, cooling_threads, worker, monitor, inbox, sent,
          producer, loop, manager, sessions_lock>>

routeVars == <<probe, verdict, call, reply>>
pipeVars == <<owner, offset, execLog>>
coolVars == <<now, delivered, cooling_sessions, infos, cooling_threads, worker, monitor,
              inbox, sent>>
hostVars == <<producer, loop, manager, sessions_lock>>

-----------------------------------------------------------------------------
(* Python values *)

\* Python's None (also the result of dict.get on a missing key)
None == "None"

\* the empty dict {}
EmptyDict == [k \in {} |-> None]

\* dict.get(k), None when the key is missing
Get(m, k) == IF k \in DOMAIN m THEN m[k] ELSE None

\* dict.get(k, default)
GetOr(m, k, default) == IF k \in DOMAIN m THEN m[k] ELSE default

\* the four stage processors, in the order the manager constructs them
Stages == {"check", "poweroff", "cooling", "demise"}

-----------------------------------------------------------------------------
(* The routing filters *)

ServerCheckProcessor_should_process_message(message_data) ==
    Get(message_data, "action") = "check_server" /\ Get(message_data, "status") = "pending"

\* a filter that looks at the payload too
PowerOffFilterReadsPayload(message_data) ==
    /\ Get(message_data, "action") = "poweroff_server"
    /\ Get(message_data, "status") = "pending"
    /\ "data" \in DOMAIN message_data

ServerPowerOffProcessor_should_process_message(message_data) ==
    Get(message_data, "action") = "poweroff_server" /\ Get(message_data, "status") = "pending"

\* a filter that also takes the message of the stage after it
CoolingFilterAlsoDemise(message_data) ==
    /\ Get(message_data, "action") \in {"start_cooling_period", "demise_server"}
    /\ Get(message_data, "status") = "pending"

ServerCoolingPeriodProcessor_should_process_message(message_data) ==
    Get(message_data, "action") = "start_cooling_period" /\ Get(message_data, "status") = "pending"

\* a filter that takes every message of the demise step, the terminal one too
DemiseFilterByStep(message_data) ==
    /\ Get(message_data, "action") \in {"demise_server", "demise_complete"}
    /\ Get(message_data, "status") \in {"pending", "completed"}

ServerDemiseProcessor_should_process_message(message_data) ==
    Get(message_data, "action") = "demise_server" /\ Get(message_data, "status") = "pending"

should_process_message(stage, message_data) ==
    CASE stage = "check" -> ServerCheckProcessor_should_process_message(message_data)
      [] stage = "poweroff" -> ServerPowerOffProcessor_should_process_message(message_data)
      [] stage = "cooling" -> ServerCoolingPeriodProcessor_should_process_message(message_data)
      [] stage = "demise" -> ServerDemiseProcessor_should_process_message(message_data)

\* every action a stage or the ingress writes into a message
EmittedActions ==
    {"check_server", "poweroff_server", "demise_server", "demise_complete", "error",
     "start_cooling_period", "cooling_period_started", "cooling_violation_error",
     "cooling_error", "cooling_status", "cooling_status_update"}

\* every status a stage or the ingress writes into a message
EmittedStatuses ==
    {"pending", "monitoring", "completed", "failed", "error", "violation_error", "info"}

\* a message with the given action and status; None leaves the key out
ProbeMessage(a, s) ==
    [k \in (IF a = None THEN {} ELSE {"action"}) \cup (IF s = None THEN {} ELSE {"status"})
        |-> IF k = "action" THEN a ELSE s]

UnsetVerdict == [s \in Stages |-> "unset"]

\* the messages the filters are tried on: every action and status, present or missing
ProbeMessages ==
    {ProbeMessage(a, s) : a \in EmittedActions \cup {None}, s \in EmittedStatuses \cup {None}}

\* BaseProcessor._handle_message evaluates the filter of every stage on the message
RouteFilter ==
    /\ verdict = UnsetVerdict
    /\ verdict' = [s \in Stages |->
                      IF should_process_message(s, probe) THEN "accept" ELSE "reject"]
    /\ UNCHANGED <<probe, call, reply>>

-----------------------------------------------------------------------------
(* Strings: a server id is a Python string; Chars gives its characters *)

Chars(s) ==
    CASE s = "150" -> <<"1", "5", "0">>
      [] s = "999999" -> <<"9", "9", "9", "9", "9", "9">>
      [] s = "srv1" -> <<"s", "r", "v", "1">>
      [] s = "x" -> <<"x">>
      [] OTHER -> <<>>

Digits == {"0", "1", "2", "3", "4", "5", "6", "7", "8", "9"}

DigitValue(c) ==
    CASE c = "0" -> 0 [] c = "1" -> 1 [] c = "2" -> 2 [] c = "3" -> 3 [] c = "4" -> 4
      [] c = "5" -> 5 [] c = "6" -> 6 [] c = "7" -> 7 [] c = "8" -> 8 [] c = "9" -> 9

\* int(s) raises ValueError unless s is a non-empty run of digits
IntRaisesValueError(cs) == Len(cs) = 0 \/ \E i \in 1..Len(cs) : cs[i] \notin Digits

RECURSIVE IntOf(_)
IntOf(cs) == IF Len(cs) = 0 THEN 0
             ELSE 10 * IntOf(SubSeq(cs, 1, Len(cs) - 1)) + DigitValue(cs[Len(cs)])

\* str.upper() on the letters the server ids use
UpperChar(c) ==
    CASE c = "s" -> "S" [] c = "r" -> "R" [] c = "v" -> "V" [] c = "x" -> "X" [] OTHER -> c

Upper(cs) == [i \in 1..Len(cs) |-> UpperChar(cs[i])]

StartsWith(cs, prefix) == Len(cs) >= Len(prefix) /\ SubSeq(cs, 1, Len(prefix)) = prefix

valid_prefixes ==
    {<<"S", "R", "V">>, <<"H", "O", "S", "T">>, <<"V", "M">>,
     <<"P", "R", "O", "D">>, <<"T", "E", "S", "T">>}

\* Python truth value of a server_id: None and "" are false
Falsy(v) == v = None \/ v = ""

-----------------------------------------------------------------------------
(* Stage 1: ServerCheckProcessor *)

\* the portal lookup: numeric ids 100..999 exist, other ids by prefix
ServerCheckProcessor_check_server_in_portal(server_id) ==
    IF ~IntRaisesValueError(Chars(server_id))
    THEN 100 <= IntOf(Chars(server_id)) /\ IntOf(Chars(server_id)) <= 999
    ELSE \E prefix \in valid_prefixes : StartsWith(Upper(Chars(server_id)), prefix)

ServerCheckProcessor_create_error_response(original_message, error_msg, final_status, id, t) ==
    [id |-> id,
     original_request_id |-> Get(original_message, "id"),
     action |-> "demise_complete",
     status |-> final_status,
     processor |-> "ServerCheckProcessor",
     timestamp |-> t,
     data |-> GetOr(original_message, "data", EmptyDict),
     error |-> error_msg,
     pipeline_step |-> 1,
     pipeline_complete |-> TRUE]

\* the not-found branch with the default final_status
CheckNotFoundDefaultStatus(message_data, server_id, id, t) ==
    ServerCheckProcessor_create_error_response(
        message_data, <<"Server", server_id, "not found in portal">>, "error", id, t)

ServerCheckProcessor_not_found(message_data, server_id, id, t) ==
    ServerCheckProcessor_create_error_response(
        message_data, <<"Server", server_id, "not found in portal">>, "failed", id, t)

ServerCheckProcessor_found(message_data, server_id, id, t) ==
    [id |-> id,
     original_request_id |-> Get(message_data, "id"),
     action |-> "poweroff_server",
     status |-> "pending",
     processor |-> "ServerCheckProcessor",
     timestamp |-> t,
     data |-> [server_id |-> server_id,
               server_details |-> [hostname |-> <<"server-", server_id>>,
                                   ip_address |-> <<"192.168.1.", server_id>>,
                                   status |-> "active",
                                   location |-> "datacenter-1"],
               check_result |-> "server_found",
               original_request |-> GetOr(message_data, "data", EmptyDict)],
     pipeline_step |-> 1,
     next_step |-> "poweroff_server"]

ServerCheckProcessor_process_message(message_data, id, t) ==
    LET server_id == Get(GetOr(message_data, "data", EmptyDict), "server_id") IN
    IF Falsy(server_id)
    THEN ServerCheckProcessor_create_error_response(
             message_data, "Server ID is required", "error", id, t)
    ELSE IF ServerCheckProcessor_check_server_in_portal(server_id)
         THEN ServerCheckProcessor_found(message_data, server_id, id, t)
         ELSE ServerCheckProcessor_not_found(message_data, server_id, id, t)

\* what the stage did on the message, for the execution log
ServerCheckProcessor_outcome(message_data) ==
    LET server_id == Get(GetOr(message_data, "data", EmptyDict), "server_id") IN
    IF Falsy(server_id) THEN "no_server_id"
    ELSE IF ServerCheckProcessor_check_server_in_portal(server_id) THEN "success"
         ELSE "oracle_failed"


-----------------------------------------------------------------------------
(* Stage 2: ServerPowerOffProcessor *)

\* the two results _execute_server_poweroff returns (90% / 10% at random)
PowerOffResults ==
    {[success |-> TRUE, power_status |-> "off", poweroff_method |-> "IPMI",
      execution_time |-> "4.5s", verification |-> "confirmed_off"],
     [success |-> FALSE, error |-> "IPMI connection timeout", power_status |-> "unknown",
      attempted_method |-> "IPMI"]}

\* an error response that leaves the payload out
PowerOffErrorDropsPayload(original_message, error_msg, final_status, id, t) ==
    [id |-> id,
     action |-> "demise_complete",
     status |-> final_status,
     data |-> EmptyDict,
     error |-> error_msg,
     pipeline_complete |-> TRUE]

ServerPowerOffProcessor_create_error_response(original_message, error_msg, final_status, id, t) ==
    [id |-> id,
     original_request_id |->
         GetOr(original_message, "original_request_id", Get(original_message, "id")),
     action |-> "demise_complete",
     status |-> final_status,
     processor |-> "ServerPowerOffProcessor",
     timestamp |-> t,
     data |-> GetOr(original_message, "data", EmptyDict),
     error |-> error_msg,
     pipeline_step |-> 2,
     pipeline_complete |-> TRUE]

PowerOffSuccessTracesHandled(message_data, poweroff_result, id, t) ==
    LET server_data == GetOr(message_data, "data", EmptyDict) IN
    [id |-> id,
     original_request_id |-> Get(message_data, "id"),
     action |-> "demise_server",
     status |-> "pending",
     processor |-> "ServerPowerOffProcessor",
     timestamp |-> t,
     data |-> [server_id |-> Get(server_data, "server_id"),
               server_details |-> GetOr(server_data, "server_details", EmptyDict),
               poweroff_result |-> poweroff_result,
               poweroff_timestamp |-> t,
               original_request |-> GetOr(server_data, "original_request", EmptyDict)],
     pipeline_step |-> 2,
     next_step |-> "demise_server"]

ServerPowerOffProcessor_success(message_data, poweroff_result, id, t) ==
    LET server_data == GetOr(message_data, "data", EmptyDict) IN
    [id |-> id,
     original_request_id |->
         GetOr(message_data, "original_request_id", Get(message_data, "id")),
     action |-> "demise_server",
     status |-> "pending",
     processor |-> "ServerPowerOffProcessor",
     timestamp |-> t,
     data |-> [server_id |-> Get(server_data, "server_id"),
               server_details |-> GetOr(server_data, "server_details", EmptyDict),
               poweroff_result |-> poweroff_result,
               poweroff_timestamp |-> t,
               original_request |-> GetOr(server_data, "original_request", EmptyDict)],
     pipeline_step |-> 2,
     next_step |-> "demise_server"]

ServerPowerOffProcessor_process_message(message_data, poweroff_result, id, t) ==
    LET server_data == GetOr(message_data, "data", EmptyDict)
        server_id == Get(server_data, "server_id")
    IN
    IF Falsy(server_id)
    THEN ServerPowerOffProcessor_create_error_response(
             message_data, "Server ID is required", "error", id, t)
    ELSE IF poweroff_result.success
         THEN ServerPowerOffProcessor_success(message_data, poweroff_result, id, t)
         ELSE ServerPowerOffProcessor_create_error_response(
                  message_data,
                  <<"Failed to power off server", server_id, poweroff_result.error>>,
                  "failed", id, t)

-----------------------------------------------------------------------------
(* Stage 3: ServerDemiseProcessor *)

\* the two results _execute_server_demise returns (95% / 5% at random)
DemiseResults ==
    {[success |-> TRUE, status |-> "decommissioned", execution_time |-> "3.1s"],
     [success |-> FALSE, error |-> "Asset management system unavailable",
      status |-> "partial_demise"]}

\* _calculate_processing_time: "unknown" without a timestamp on the message
ServerDemiseProcessor_calculate_processing_time(original_message, t) ==
    IF "timestamp" \in DOMAIN original_message
    THEN <<t - original_message["timestamp"], "s">>
    ELSE <<"unknown">>

ServerDemiseProcessor_create_error_response(original_message, error_msg, final_status, id, t) ==
    [id |-> id,
     original_request_id |->
         GetOr(original_message, "original_request_id", Get(original_message, "id")),
     action |-> "demise_complete",
     status |-> final_status,
     processor |-> "ServerDemiseProcessor",
     timestamp |-> t,
     data |-> GetOr(original_message, "data", EmptyDict),
     error |-> error_msg,
     pipeline_step |-> 3,
     pipeline_complete |-> TRUE]

\* a completion message that lacks the terminal flag
DemiseSuccessNotTerminal(message_data, demise_result, id, t) ==
    [id |-> id,
     original_request_id |->
         GetOr(message_data, "original_request_id", Get(message_data, "id")),
     action |-> "demise_complete",
     status |-> "completed",
     processor |-> "ServerDemiseProcessor",
     timestamp |-> t,
     data |-> GetOr(message_data, "data", EmptyDict),
     pipeline_step |-> 3]

ServerDemiseProcessor_success(message_data, demise_result, id, t) ==
    LET server_data == GetOr(message_data, "data", EmptyDict) IN
    [id |-> id,
     original_request_id |->
         GetOr(message_data, "original_request_id", Get(message_data, "id")),
     action |-> "demise_complete",
     status |-> "completed",
     processor |-> "ServerDemiseProcessor",
     timestamp |-> t,
     data |-> [server_id |-> Get(server_data, "server_id"),
               server_details |-> GetOr(server_data, "server_details", EmptyDict),
               poweroff_result |-> GetOr(server_data, "poweroff_result", EmptyDict),
               demise_result |-> demise_result,
               completion_timestamp |-> t,
               pipeline_summary |-> [step_1 |-> "Server found in portal",
                                     step_2 |-> "Server powered off successfully",
                                     step_3 |-> "Server demise request completed"],
               original_request |-> GetOr(server_data, "original_request", EmptyDict)],
     pipeline_step |-> 3,
     pipeline_complete |-> TRUE,
     total_processing_time |->
         ServerDemiseProcessor_calculate_processing_time(message_data, t)]

ServerDemiseProcessor_process_message(message_data, demise_result, id, t) ==
    LET server_data == GetOr(message_data, "data", EmptyDict)
        server_id == Get(server_data, "server_id")
    IN
    IF Falsy(server_id)
    THEN ServerDemiseProcessor_create_error_response(
             message_data, "Server ID is required", "error", id, t)
    ELSE IF demise_result.success
         THEN ServerDemiseProcessor_success(message_data, demise_result, id, t)
         ELSE ServerDemiseProcessor_create_error_response(
                  message_data,
                  <<"Failed to demise server", server_id, demise_result.error>>,
                  "failed", id, t)

\* what PowerOff or Demise did on the message, for the execution log
OracleStageOutcome(message_data, result) ==
    IF Falsy(Get(GetOr(message_data, "data", EmptyDict), "server_id")) THEN "no_server_id"
    ELSE IF result.success THEN "success" ELSE "oracle_failed"


-----------------------------------------------------------------------------
(* The shared topic and the consumer group *)

\* requests the ingress sends
MaxRequests == 1

\* partitions of server-demise-pipeline
NumPartitions == 3

Partitions == 1..NumPartitions

StageOrder == <<"check", "poweroff", "cooling", "demise">>

StageIndex(stage) == CHOOSE i \in 1..Len(StageOrder) : StageOrder[i] = stage

\* the server ids the ingress sends; None stands for a payload without server_id
ServerIds == {"150", "999999", "srv1", "x", "", None}

\* Every stage creates its own consumer on the topic with the same group_id, so the
\* group gives each partition to exactly one stage's consumer.  Partitions are
\* interchangeable: the assignments are listed up to renaming of partitions.
Assignments ==
    {f \in [Partitions -> Stages] :
        \A p, q \in Partitions : p < q => StageIndex(f[p]) < StageIndex(f[q])}

\* the message POST /demise-server puts on the topic
IngressMessage(server_id, id, t) ==
    [id |-> id,
     action |-> "check_server",
     status |-> "pending",
     processor |-> "API",
     timestamp |-> t,
     data |-> [k \in (IF server_id = None THEN {} ELSE {"server_id"})
                     \cup {"reason", "priority", "requester", "additional_data"} |->
                  CASE k = "server_id" -> server_id
                    [] k = "reason" -> "Server decommission"
                    [] k = "priority" -> "normal"
                    [] k = "requester" -> "system"
                    [] k = "additional_data" -> EmptyDict],
     pipeline_step |-> 0,
     next_step |-> "check_server"]

\* the records of partition p, by their place in the topic
PartitionRecords(p) == {i \in 1..Len(topic) : topic[i].part = p}

\* the place of the next record the consumer of partition p polls, 0 when it has none
NextRecord(p) ==
    LET waiting == {i \in PartitionRecords(p) :
                       Cardinality({j \in PartitionRecords(p) : j < i}) >= offset[p]}
    IN IF waiting = {} THEN 0 ELSE CHOOSE i \in waiting : \A j \in waiting : i <= j

Requests == {i \in 1..Len(topic) : topic[i].from = 0}

\* the results the stage's oracle can return
OracleResults(stage) ==
    CASE stage = "poweroff" -> PowerOffResults
      [] stage = "demise" -> DemiseResults
      [] OTHER -> {[success |-> TRUE]}

\* process_message of the stage
process_message(stage, message_data, result, id, t) ==
    CASE stage = "check" -> ServerCheckProcessor_process_message(message_data, id, t)
      [] stage = "poweroff" ->
             ServerPowerOffProcessor_process_message(message_data, result, id, t)
      [] stage = "demise" ->
             ServerDemiseProcessor_process_message(message_data, result, id, t)

StageOutcome(stage, message_data, result) ==
    IF stage = "check" THEN ServerCheckProcessor_outcome(message_data)
    ELSE OracleStageOutcome(message_data, result)

\* the cooling monitor before any message: no session, no thread, idle workers
CoolingIdle ==
    /\ now = 0
    /\ delivered = <<>>
    /\ cooling_sessions = EmptyDict
    /\ infos = EmptyDict
    /\ cooling_threads = EmptyDict
    /\ worker = EmptyDict
    /\ monitor = EmptyDict
    /\ inbox = <<>>
    /\ sent = EmptyDict

StageIdle == call = EmptyDict /\ reply = EmptyDict

\* no producer wrapper, no poll loop and no pipeline manager
\* threading.Lock(): no thread holds it
Free == <<"free">>

HostIdle ==
    /\ producer = EmptyDict
    /\ loop = EmptyDict
    /\ manager = EmptyDict
    /\ sessions_lock = Free

RouteIdle == probe = EmptyDict /\ verdict = UnsetVerdict /\ StageIdle

PipeInit ==
    /\ RouteIdle
    /\ HostIdle
    /\ CoolingIdle
    /\ topic = <<>>
    /\ owner \in Assignments
    /\ offset = [p \in Partitions |-> 0]
    /\ nextId = 1
    /\ execLog = [r \in 1..MaxRequests |-> <<>>]

\* the request ingress: a check_server/pending message, on any partition (no key)
Ingress ==
    /\ Cardinality(Requests) < MaxRequests
    /\ \E server_id \in ServerIds, p \in Partitions :
          topic' = Append(topic, [msg |-> IngressMessage(server_id, nextId, now),
                                  part |-> p,
                                  run |-> Cardinality(Requests) + 1,
                                  from |-> 0,
                                  at |-> now])
    /\ nextId' = nextId + 1
    /\ UNCHANGED <<owner, offset, execLog, routeVars, coolVars, hostVars>>

\* BaseProcessor.run_once of a stage: poll the next record of a partition the stage's
\* consumer owns; _handle_message drops it when the filter rejects it, else runs
\* process_message and sends the result to the topic
RunOnce(stage) ==
    \E p \in Partitions :
        /\ owner[p] = stage
        /\ NextRecord(p) # 0
        /\ offset' = [offset EXCEPT ![p] = @ + 1]
        /\ LET i == NextRecord(p)
               message_data == topic[i].msg
           IN IF ~should_process_message(stage, message_data)
              THEN UNCHANGED <<topic, nextId, execLog, inbox>>
              ELSE IF stage = "cooling"
              THEN /\ inbox' = Append(inbox, message_data)
                   /\ execLog' = [execLog EXCEPT ![topic[i].run] =
                                     Append(@, [stage |-> stage, outcome |-> "accepted"])]
                   /\ UNCHANGED <<topic, nextId>>
              ELSE \E result \in OracleResults(stage), q \in Partitions :
                   /\ topic' = Append(topic,
                          [msg |-> process_message(stage, message_data, result, nextId, now),
                           part |-> q,
                           run |-> topic[i].run,
                           from |-> i,
                           at |-> now])
                   /\ nextId' = nextId + 1
                   /\ execLog' = [execLog EXCEPT ![topic[i].run] =
                          Append(@, [stage |-> stage,
                                     outcome |-> StageOutcome(stage, message_data, result)])]
                   /\ UNCHANGED inbox
        /\ UNCHANGED <<owner, routeVars, hostVars, now, delivered, cooling_sessions, infos,
                       cooling_threads, worker, monitor, sent>>

PipeNext == Ingress \/ \E stage \in Stages : RunOnce(stage)

Spec == PipeInit /\ [][PipeNext]_vars

-----------------------------------------------------------------------------
(* Redelivery. The consumers commit their positions automatically and apart    *)
(* from the handling of the records; after a restart or a rebalance the poll   *)
(* returns again records that were handled already (at-least-once delivery).   *)

\* records the consumers are handed once more in a run
MaxRedeliveries == 1

\* the place of the record the consumer of partition p polled last, 0 before the first
LastRecord(p) ==
    LET polled == {i \in PartitionRecords(p) :
                      Cardinality({j \in PartitionRecords(p) : j < i}) = offset[p] - 1}
    IN IF polled = {} THEN 0 ELSE CHOOSE i \in polled : TRUE

\* the polls that returned one of the first n records of the topic; delivered counts
\* the polls by record
RECURSIVE Deliveries(_)
Deliveries(n) == IF n = 0 THEN 0 ELSE GetOr(delivered, n, 0) + Deliveries(n - 1)

\* polls that returned a record the consumer had polled before
Redeliveries ==
    Deliveries(Len(topic))
      - Cardinality({i \in 1..Len(topic) :
            Cardinality({j \in PartitionRecords(topic[i].part) : j < i})
                < offset[topic[i].part]})

RedeliverInit ==
    /\ RouteIdle
    /\ HostIdle
    /\ topic = <<>>
    /\ owner \in Assignments
    /\ offset = [p \in Partitions |-> 0]
    /\ nextId = 1
    /\ execLog = [r \in 1..MaxRequests |-> <<>>]
    /\ now = 0
    /\ delivered = EmptyDict
    /\ cooling_sessions = EmptyDict
    /\ infos = EmptyDict
    /\ cooling_threads = EmptyDict
    /\ worker = EmptyDict
    /\ monitor = EmptyDict
    /\ inbox = <<>>
    /\ sent = EmptyDict

\* _handle_message with a test for a record the stage has handled before
DeliverDeduplicated(stage) ==
    \E p \in Partitions, again \in BOOLEAN :
        /\ owner[p] = stage
        /\ again => Redeliveries < MaxRedeliveries
        /\ LET i == IF again THEN LastRecord(p) ELSE NextRecord(p)
               message_data == topic[i].msg
           IN /\ i # 0
              /\ delivered' = [k \in DOMAIN delivered \cup {i} |->
                                   GetOr(delivered, k, 0) + IF k = i THEN 1 ELSE 0]
              /\ offset' = IF again THEN offset ELSE [offset EXCEPT ![p] = @ + 1]
              /\ IF ~should_process_message(stage, message_data)
                    \/ i \in DOMAIN delivered
                 THEN UNCHANGED <<topic, nextId, execLog, inbox>>
                 ELSE IF stage = "cooling"
                 THEN /\ inbox' = Append(inbox, message_data)
                      /\ execLog' = [execLog EXCEPT ![topic[i].run] =
                                        Append(@, [stage |-> stage, outcome |-> "accepted"])]
                      /\ UNCHANGED <<topic, nextId>>
                 ELSE \E result \in OracleResults(stage), q \in Partitions :
                      /\ topic' = Append(topic,
                             [msg |-> process_message(stage, message_data, result, nextId, now),
                              part |-> q,
                              run |-> topic[i].run,
                              from |-> i,
                              at |-> now])
                      /\ nextId' = nextId + 1
                      /\ execLog' = [execLog EXCEPT ![topic[i].run] =
                             Append(@, [stage |-> stage,
                                        outcome |-> StageOutcome(stage, message_data, result)])]
                      /\ UNCHANGED inbox
        /\ UNCHANGED <<owner, routeVars, hostVars, now, cooling_sessions, infos,
                       cooling_threads, worker, monitor, sent>>

\* BaseProcessor.run_once of a stage whose poll returns the next record of a partition
\* or, again, the record polled last: _handle_message keeps nothing of the records it
\* has handled; the filter, process_message and _send_response run on every record
Deliver(stage) ==
    \E p \in Partitions, again \in BOOLEAN :
        /\ owner[p] = stage
        /\ again => Redeliveries < MaxRedeliveries
        /\ LET i == IF again THEN LastRecord(p) ELSE NextRecord(p)
               message_data == topic[i].msg
           IN /\ i # 0
              /\ delivered' = [k \in DOMAIN delivered \cup {i} |->
                                   GetOr(delivered, k, 0) + IF k = i THEN 1 ELSE 0]
              /\ offset' = IF again THEN offset ELSE [offset EXCEPT ![p] = @ + 1]
              /\ IF ~should_process_message(stage, message_data)
                 THEN UNCHANGED <<topic, nextId, execLog, inbox>>
                 ELSE IF stage = "cooling"
                 THEN /\ inbox' = Append(inbox, message_data)
                      /\ execLog' = [execLog EXCEPT ![topic[i].run] =
                                        Append(@, [stage |-> stage, outcome |-> "accepted"])]
                      /\ UNCHANGED <<topic, nextId>>
                 ELSE \E result \in OracleResults(stage), q \in Partitions :
                      /\ topic' = Append(topic,
                             [msg |-> process_message(stage, message_data, result, nextId, now),
                              part |-> q,
                              run |-> topic[i].run,
                              from |-> i,
                              at |-> now])
                      /\ nextId' = nextId + 1
                      /\ execLog' = [execLog EXCEPT ![topic[i].run] =
                             Append(@, [stage |-> stage,
                                        outcome |-> StageOutcome(stage, message_data, result)])]
                      /\ UNCHANGED inbox
        /\ UNCHANGED <<owner, routeVars, hostVars, now, cooling_sessions, infos,
                       cooling_threads, worker, monitor, sent>>

\* the request ingress, for the one request the redeliveries are followed on: a server
\* the inventory has and one it has not
RedeliverIngress ==
    /\ topic = <<>>
    /\ \E server_id \in {"150", "999999"}, p \in Partitions :
          topic' = Append(topic, [msg |-> IngressMessage(server_id, nextId, now),
                                  part |-> p,
                                  run |-> 1,
                                  from |-> 0,
                                  at |-> now])
    /\ nextId' = nextId + 1
    /\ UNCHANGED <<owner, offset, execLog, routeVars, coolVars, hostVars>>

RedeliverNext == RedeliverIngress \/ \E stage \in Stages : Deliver(stage)

SpecRedeliver == RedeliverInit /\ [][RedeliverNext]_vars

RouteNext == RouteFilter /\ UNCHANGED <<topic, nextId, pipeVars, coolVars, hostVars>>

RouteInit ==
    /\ probe \in ProbeMessages
    /\ verdict = UnsetVerdict
    /\ StageIdle
    /\ HostIdle
    /\ CoolingIdle
    /\ topic = <<>>
    /\ nextId = 1
    /\ owner = EmptyDict
    /\ offset = EmptyDict
    /\ execLog = EmptyDict

SpecRoute == RouteInit /\ [][RouteNext]_vars

-----------------------------------------------------------------------------
(* process_message of the Check, PowerOff and Demise stage on one accepted   *)
(* message (SpecStage)                                                       *)

\* the stages that run an action on the server in process_message
ActionStages == {"check", "poweroff", "demise"}

\* an exception during the call: none, one raised inside the stage's oracle
\* (_check_server_in_portal, _execute_server_poweroff, _execute_server_demise), or one
\* raised by another statement of process_message's try block
Faults == {"none", "oracle_raises", "handler_raises"}

\* str(e) of the exception
ExceptionText == "exception"

\* except branch of _execute_server_poweroff
ServerPowerOffProcessor_execute_raised ==
    [success |-> FALSE, error |-> ExceptionText, power_status |-> "unknown"]

\* except branch of _execute_server_demise
ServerDemiseProcessor_execute_raised ==
    [success |-> FALSE, error |-> ExceptionText, status |-> "demise_failed"]

\* except branch of process_message: _create_error_response with the default
\* final_status
process_message_except(stage, message_data, id, t) ==
    CASE stage = "check" ->
             ServerCheckProcessor_create_error_response(
                 message_data, <<"Server check failed:", ExceptionText>>, "error", id, t)
      [] stage = "poweroff" ->
             ServerPowerOffProcessor_create_error_response(
                 message_data, <<"Server power off failed:", ExceptionText>>, "error", id, t)
      [] stage = "demise" ->
             ServerDemiseProcessor_create_error_response(
                 message_data, <<"Server demise failed:", ExceptionText>>, "error", id, t)

\* the server_id process_message reads from the message
ServerIdOf(message_data) == Get(GetOr(message_data, "data", EmptyDict), "server_id")

\* process_message calls the oracle: no exception before the call, and a server_id
OracleAsked(message_data, fault) ==
    fault # "handler_raises" /\ ~Falsy(ServerIdOf(message_data))

\* what the oracle hands back to process_message when it raised inside: PowerOff and
\* Demise catch the exception and return a failure
OracleRaised(stage) ==
    IF stage = "poweroff" THEN ServerPowerOffProcessor_execute_raised
    ELSE ServerDemiseProcessor_execute_raised

\* process_message with the exceptions: the try block and its except branch
process_message_try(stage, message_data, fault, result, id, t) ==
    IF fault = "handler_raises"
    THEN process_message_except(stage, message_data, id, t)
    ELSE IF fault = "oracle_raises" /\ OracleAsked(message_data, fault)
    THEN IF stage = "check"
         THEN process_message_except(stage, message_data, id, t)
         ELSE process_message(stage, message_data, OracleRaised(stage), id, t)
    ELSE process_message(stage, message_data, result, id, t)

\* a message the stage accepts: what the stage before it emits for the server_id
StageInput(stage, server_id) ==
    LET request == IngressMessage(server_id, 1, 0)
        checked == ServerCheckProcessor_found(request, server_id, 2, 0)
        powered_off == ServerPowerOffProcessor_success(
                           checked, CHOOSE r \in PowerOffResults : r.success, 3, 0)
    IN CASE stage = "check" -> request
         [] stage = "poweroff" -> checked
         [] stage = "demise" -> powered_off

\* the calls: every stage, server_id, fault and result of the stage's oracle
StageCalls ==
    UNION {{[stage |-> stage, message |-> StageInput(stage, server_id), fault |-> fault,
             result |-> result] :
               server_id \in ServerIds, fault \in Faults, result \in OracleResults(stage)} :
           stage \in ActionStages}

StageInit ==
    /\ call \in StageCalls
    /\ reply = EmptyDict
    /\ probe = EmptyDict
    /\ verdict = UnsetVerdict
    /\ HostIdle
    /\ CoolingIdle
    /\ topic = <<>>
    /\ nextId = 1
    /\ owner = EmptyDict
    /\ offset = EmptyDict
    /\ execLog = EmptyDict

\* _handle_message on the accepted message: process_message returns the message to send
StageHandle ==
    /\ reply = EmptyDict
    /\ should_process_message(call.stage, call.message)
    /\ reply' = [msg |-> process_message_try(call.stage, call.message, call.fault,
                                             call.result, nextId, now),
                 asked |-> OracleAsked(call.message, call.fault)]
    /\ UNCHANGED <<probe, verdict, call, topic, nextId, pipeVars, coolVars, hostVars>>

SpecStage == StageInit /\ [][StageHandle]_vars


-----------------------------------------------------------------------------
(* Properties of the routing filters (SpecRoute) *)

Accepting == {s \in Stages : verdict[s] = "accept"}

\* C1: for every (action, status) pair, present or missing, at most one of the four
\* stage filters accepts the message
C1_RoutingUnique == verdict # UnsetVerdict => Cardinality(Accepting) <= 1

\* the filters ran on a trigger message and exactly one stage took it
C1_Witness == verdict # UnsetVerdict /\ Cardinality(Accepting) = 1

\* the actions of the acknowledgment, status and terminal messages
ReplyActions ==
    {"cooling_period_started", "cooling_status", "cooling_status_update", "demise_complete",
     "cooling_violation_error", "cooling_error", "error"}

\* C38: a message with the action of an acknowledgment, a status or a terminal message is
\* rejected by the filter of every stage, whatever its status.
C38_RepliesAreNotRoutable ==
    (verdict # UnsetVerdict /\ Get(probe, "action") \in ReplyActions) => Accepting = {}

\* the filters ran on a demise_complete/completed message and no stage took it
C38_Witness ==
    /\ verdict # UnsetVerdict
    /\ probe = ProbeMessage("demise_complete", "completed")
    /\ Accepting = {}

-----------------------------------------------------------------------------
(* Properties of a pipeline run (Spec) *)

Runs == 1..MaxRequests

\* the places in the topic of the messages of run r
RunRecords(r) == {i \in 1..Len(topic) : topic[i].run = r}

\* the last message of run r on the topic
LastOfRun(r) == topic[CHOOSE i \in RunRecords(r) : \A j \in RunRecords(r) : j <= i].msg

\* record i was polled by the consumer that owns its partition
Consumed(i) ==
    Cardinality({j \in PartitionRecords(topic[i].part) : j < i}) < offset[topic[i].part]

Executed(r, stage) == {k \in 1..Len(execLog[r]) : execLog[r][k].stage = stage}

IsTerminal(m) == "pipeline_complete" \in DOMAIN m /\ m["pipeline_complete"] = TRUE

\* C4: the Demise stage executes for a run only after the cooling monitor accepted a
\* start_cooling_period/pending message of that run (check_server -> poweroff_server ->
\* cooling_period -> demise_server)
C4_DemiseOnlyAfterCooling ==
    \A r \in Runs : \A k \in Executed(r, "demise") :
        \E j \in Executed(r, "cooling") : j < k

\* C5: a check_server/pending message with a server_id is never consumed without a
\* poweroff_server/pending message or a terminal message of the same request being
\* produced
C5_CheckNeverSilent ==
    \A i \in 1..Len(topic) :
        (/\ ServerCheckProcessor_should_process_message(topic[i].msg)
         /\ ~Falsy(Get(topic[i].msg.data, "server_id"))
         /\ Consumed(i))
        => \E j \in RunRecords(topic[i].run) :
              /\ j > i
              /\ \/ ServerPowerOffProcessor_should_process_message(topic[j].msg)
                 \/ IsTerminal(topic[j].msg)

AllOraclesSucceeded(r) ==
    \A stage \in {"check", "poweroff", "demise"} :
        \E k \in Executed(r, stage) : execLog[r][k].outcome = "success"

CheckOracleNotFound(r) ==
    \E k \in Executed(r, "check") : execLog[r][k].outcome = "oracle_failed"

\* C7: when the Check oracle reports that the server does not exist, the run ends with
\* demise_complete / failed with pipeline_complete = true, and no PowerOff, cooling
\* or Demise stage ever executes for the run
C7_ScenarioB ==
    \A r \in Runs :
        CheckOracleNotFound(r) =>
            /\ execLog[r] = <<[stage |-> "check", outcome |-> "oracle_failed"]>>
            /\ LastOfRun(r).action = "demise_complete"
            /\ LastOfRun(r).status = "failed"
            /\ IsTerminal(LastOfRun(r))

\* the Check oracle said not found and every message of the run has been consumed
C7_Witness ==
    \E r \in Runs :
        /\ CheckOracleNotFound(r)
        /\ \A i \in RunRecords(r) : Consumed(i)

\* C10: every field of the data payload of the message a stage accepted is present
\* with the same value in the data payload of the message the stage emits
C10_PayloadMonotonic ==
    \A j \in 1..Len(topic) :
        topic[j].from # 0 =>
            LET incoming == GetOr(topic[topic[j].from].msg, "data", EmptyDict)
                emitted == GetOr(topic[j].msg, "data", EmptyDict)
            IN \A k \in DOMAIN incoming :
                   k \in DOMAIN emitted /\ emitted[k] = incoming[k]


-----------------------------------------------------------------------------
(* Stage 2.5: ServerCoolingPeriodProcessor, the cooling-period monitor *)

(* The source sets cooling_period_hours = 48 and check_interval_hours = 2      *)
(* (server_cooling_processor.py:25-26).  The model keeps the two names and     *)
(* the code's arithmetic on them, with a shorter period so that a session      *)
(* has few ticks; the properties are stated in terms of the two names.         *)
cooling_period_hours == 5

check_interval_hours == 2

\* records the cooling stage's consumer polls in a run
MaxStarts == 2

\* worker loops of the cooling stage (max_workers of server_cooling_processor)
CoolingWorkers == 2

Workers == 1..CoolingWorkers

\* the server ids of the start messages; None stands for a payload without server_id
CoolingServerIds == {"150", "srv1", None}

\* datetime.isoformat(): the text of a clock reading
IsoFormat(t) == <<"iso", t>>

\* a start_cooling_period/pending message, with the fields process_message reads
StartCoolingMessage(server_id, id, t) ==
    [id |-> id,
     action |-> "start_cooling_period",
     status |-> "pending",
     timestamp |-> t,
     data |-> [k \in (IF server_id = None THEN {} ELSE {"server_id"})
                     \cup {"server_details", "original_request"} |->
                  CASE k = "server_id" -> server_id
                    [] k = "server_details" -> [ip_address |-> <<"192.168.1.", server_id>>]
                    [] k = "original_request" -> [reason |-> "Server decommission"]]]

\* an error response that leaves the pipeline open
CoolingErrorLeavesPipelineOpen(original_message, error_msg, id, t) ==
    [id |-> id,
     original_request_id |->
         GetOr(original_message, "original_request_id", Get(original_message, "id")),
     action |-> "cooling_error",
     status |-> "error",
     processor |-> "ServerCoolingPeriodProcessor",
     timestamp |-> t,
     data |-> GetOr(original_message, "data", EmptyDict),
     error |-> error_msg,
     pipeline_step |-> "2.5",
     pipeline_complete |-> FALSE]

ServerCoolingPeriodProcessor_create_error_response(original_message, error_msg, id, t) ==
    [id |-> id,
     original_request_id |->
         GetOr(original_message, "original_request_id", Get(original_message, "id")),
     action |-> "cooling_error",
     status |-> "error",
     processor |-> "ServerCoolingPeriodProcessor",
     timestamp |-> t,
     data |-> GetOr(original_message, "data", EmptyDict),
     error |-> error_msg,
     pipeline_step |-> "2.5",
     pipeline_complete |-> TRUE]

StatusResponseEndsPipeline(original_message, status_msg, id, t) ==
    [id |-> id,
     original_request_id |->
         GetOr(original_message, "original_request_id", Get(original_message, "id")),
     action |-> "cooling_status",
     status |-> "info",
     processor |-> "ServerCoolingPeriodProcessor",
     timestamp |-> t,
     data |-> GetOr(original_message, "data", EmptyDict),
     message |-> status_msg,
     pipeline_step |-> "2.5",
     pipeline_complete |-> TRUE]

ServerCoolingPeriodProcessor_create_status_response(original_message, status_msg, id, t) ==
    [id |-> id,
     original_request_id |->
         GetOr(original_message, "original_request_id", Get(original_message, "id")),
     action |-> "cooling_status",
     status |-> "info",
     processor |-> "ServerCoolingPeriodProcessor",
     timestamp |-> t,
     data |-> GetOr(original_message, "data", EmptyDict),
     message |-> status_msg,
     pipeline_step |-> "2.5"]

\* the cooling_info dict process_message builds
new_cooling_info(message_data, t) ==
    LET server_data == GetOr(message_data, "data", EmptyDict) IN
    [server_id |-> Get(server_data, "server_id"),
     server_details |-> GetOr(server_data, "server_details", EmptyDict),
     poweroff_timestamp |-> GetOr(server_data, "poweroff_timestamp", IsoFormat(t)),
     cooling_start |-> t,
     cooling_end |-> t + cooling_period_hours,
     original_message |-> message_data,
     check_count |-> 0,
     last_check |-> None,
     status |-> "monitoring"]

\* the cooling_period_started acknowledgment process_message returns
cooling_period_started(message_data, cooling_info, id, t) ==
    [id |-> id,
     original_request_id |->
         GetOr(message_data, "original_request_id", Get(message_data, "id")),
     action |-> "cooling_period_started",
     status |-> "monitoring",
     processor |-> "ServerCoolingPeriodProcessor",
     timestamp |-> t,
     data |-> [server_id |-> cooling_info.server_id,
               server_details |-> cooling_info.server_details,
               cooling_start |-> IsoFormat(cooling_info.cooling_start),
               cooling_end |-> IsoFormat(cooling_info.cooling_end),
               cooling_period_hours |-> cooling_period_hours,
               check_interval_hours |-> check_interval_hours,
               poweroff_timestamp |-> cooling_info.poweroff_timestamp],
     pipeline_step |-> "2.5",
     next_step |-> "cooling_monitor"]

\* the power_info _check_server_power_status returns (powered on with 5% at random);
\* boot_time and power_on_reason, drawn at random too, are left out
check_server_power_status(server_details, is_powered_on, t) ==
    [is_powered_on |-> is_powered_on,
     power_state |-> IF is_powered_on THEN "on" ELSE "off",
     check_method |-> "IPMI",
     check_timestamp |-> IsoFormat(t),
     response_time_ms |-> 1500,
     server_ip |-> GetOr(server_details, "ip_address", "unknown")]

\* a failed query that counts as "powered on"
QueryFailureAssumesOn(t) ==
    [is_powered_on |-> TRUE,
     power_state |-> "unknown",
     check_method |-> "IPMI",
     error |-> "exception",
     check_timestamp |-> IsoFormat(t)]

\* the power_info of the except branch of _check_server_power_status
check_server_power_status_except(t) ==
    [is_powered_on |-> FALSE,
     power_state |-> "unknown",
     check_method |-> "IPMI",
     error |-> "exception",
     check_timestamp |-> IsoFormat(t)]

\* a violation message that counts the checks from 0
ViolationCountsFromZero(cooling_info, power_status, id, t) ==
    [id |-> id,
     action |-> "cooling_violation_error",
     status |-> "violation_error",
     data |-> [server_id |-> cooling_info.server_id,
               violation_details |-> [power_status |-> power_status,
                                      check_number |-> cooling_info.check_count - 1]],
     pipeline_step |-> "2.5",
     pipeline_complete |-> TRUE,
     violation |-> TRUE]

\* the message _handle_cooling_violation sends
cooling_violation_error(cooling_info, power_status, id, t) ==
    [id |-> id,
     original_request_id |->
         GetOr(cooling_info.original_message, "original_request_id",
               Get(cooling_info.original_message, "id")),
     action |-> "cooling_violation_error",
     status |-> "violation_error",
     processor |-> "ServerCoolingPeriodProcessor",
     timestamp |-> t,
     data |-> [server_id |-> cooling_info.server_id,
               server_details |-> cooling_info.server_details,
               violation_details |->
                   [power_status |-> power_status,
                    violation_time |-> IsoFormat(t),
                    cooling_elapsed_hours |-> t - cooling_info.cooling_start,
                    remaining_hours |-> cooling_info.cooling_end - t,
                    check_number |-> cooling_info.check_count],
               cooling_period_info |->
                   [cooling_start |-> IsoFormat(cooling_info.cooling_start),
                    cooling_end |-> IsoFormat(cooling_info.cooling_end),
                    total_checks_performed |-> cooling_info.check_count]],
     error |-> <<"Server", cooling_info.server_id,
                 "powered on during mandatory cooling period">>,
     pipeline_step |-> "2.5",
     pipeline_complete |-> TRUE,
     violation |-> TRUE]

\* the message _handle_cooling_complete sends
cooling_complete(cooling_info, id, t) ==
    [id |-> id,
     original_request_id |->
         GetOr(cooling_info.original_message, "original_request_id",
               Get(cooling_info.original_message, "id")),
     action |-> "demise_server",
     status |-> "pending",
     processor |-> "ServerCoolingPeriodProcessor",
     timestamp |-> t,
     data |-> [server_id |-> cooling_info.server_id,
               server_details |-> cooling_info.server_details,
               cooling_completion |->
                   [cooling_start |-> IsoFormat(cooling_info.cooling_start),
                    cooling_end |-> IsoFormat(cooling_info.cooling_end),
                    actual_completion |-> IsoFormat(t),
                    total_checks_performed |-> cooling_info.check_count,
                    cooling_duration_hours |-> cooling_period_hours],
               poweroff_timestamp |-> cooling_info.poweroff_timestamp,
               original_request |->
                   GetOr(GetOr(cooling_info.original_message, "data", EmptyDict),
                         "original_request", EmptyDict)],
     pipeline_step |-> "2.5",
     next_step |-> "demise_server"]

\* a Python value with its type, where json.dumps tells the types apart
Typed(type, value) == <<type, value>>

\* the message _handle_cooling_error sends; last_check is a datetime object once a
\* check was made
cooling_error(cooling_info, error_msg, id, t) ==
    [id |-> id,
     original_request_id |->
         GetOr(cooling_info.original_message, "original_request_id",
               Get(cooling_info.original_message, "id")),
     action |-> "cooling_error",
     status |-> "error",
     processor |-> "ServerCoolingPeriodProcessor",
     timestamp |-> t,
     data |-> [server_id |-> cooling_info.server_id,
               server_details |-> cooling_info.server_details,
               error_details |->
                   [error_message |-> error_msg,
                    error_time |-> IsoFormat(t),
                    checks_completed |-> cooling_info.check_count,
                    last_successful_check |->
                        IF cooling_info.check_count = 0
                        THEN Typed("NoneType", None)
                        ELSE Typed("datetime", IsoFormat(cooling_info.last_check))]],
     error |-> error_msg,
     pipeline_step |-> "2.5",
     pipeline_complete |-> TRUE]

\* the value_serializer of the producer, json.dumps: TypeError on a datetime object.
\* Of the messages of the cooling monitor only cooling_error carries one.
json_dumps_raises(message) ==
    /\ message.action = "cooling_error"
    /\ "error_details" \in DOMAIN message.data
    /\ message.data.error_details.last_successful_check[1] = "datetime"

\* a test of the end of the period against the start of the period
CoolingOverSinceStart(cooling_info, current_time) == current_time >= cooling_info.cooling_start

\* monitor_cooling_period: "current_time >= cooling_info['cooling_end']"
cooling_period_over(cooling_info, current_time) == current_time >= cooling_info.cooling_end

\* an idle worker loop
IdleWorker == [pc |-> "idle"]

\* "del d[k]" when k is in d
Remove(d, k) == [x \in DOMAIN d \ {k} |-> d[x]]

\* "d[k] = v"
Put(d, k, v) == [x \in DOMAIN d \cup {k} |-> IF x = k THEN v ELSE d[x]]

\* uuid4 of the k-th record sent for a session
SentId(session) == <<"uuid", session, Len(GetOr(sent, session, <<>>)) + 1>>

\* _send_response of the cooling monitor: the record goes to the topic; the model keeps
\* the records by session (the topic orders the records of one partition only). On a
\* producer that stop has closed, producer.send raises and the exception is logged
Send(message, session) ==
    IF "closed" \in DOMAIN producer THEN sent
    ELSE Put(sent, session,
             Append(GetOr(sent, session, <<>>), [msg |-> message, at |-> now]))

\* _send_response with the serializer: the exception of producer.send is caught and
\* logged, nothing is sent
SendJson(message, session) ==
    IF json_dumps_raises(message) THEN sent ELSE Send(message, session)

CoolingInit ==
    /\ RouteIdle
    /\ HostIdle
    /\ topic = <<>>
    /\ owner = EmptyDict
    /\ offset = EmptyDict
    /\ execLog = EmptyDict
    /\ nextId = 1
    /\ now = 0
    /\ delivered = <<>>
    /\ cooling_sessions = EmptyDict
    /\ infos = EmptyDict
    /\ cooling_threads = EmptyDict
    /\ worker = [w \in Workers |-> IdleWorker]
    /\ monitor = EmptyDict
    /\ inbox = <<>>
    /\ sent = EmptyDict

\* the records a poll of the cooling stage's consumer can return: a new
\* start_cooling_period/pending message, or the last record once more (at-least-once
\* delivery: the position of the consumer is set back by one record)
Polled ==
    {StartCoolingMessage(server_id, nextId, now) : server_id \in CoolingServerIds}
        \cup {delivered[i] : i \in {Len(delivered)} \ {0}}

\* the worker loops run the same code: the record goes to the first loop that polls
Polling(w) ==
    /\ worker[w].pc = "idle"
    /\ \A v \in Workers : v < w => worker[v].pc # "idle"

\* run_once / _handle_message / process_message up to the end of the first
\* "with self.sessions_lock" block: the poll, the filter, the server_id test and the
\* test "server_id in self.cooling_sessions"
WorkerPoll(w, starts) ==
    /\ Polling(w)
    /\ "closed" \notin DOMAIN producer
    /\ Len(delivered) < starts
    /\ \E message_data \in Polled :
       LET server_id == Get(GetOr(message_data, "data", EmptyDict), "server_id")
       IN /\ delivered' = Append(delivered, message_data)
          /\ IF ~ServerCoolingPeriodProcessor_should_process_message(message_data)
             THEN UNCHANGED <<sent, worker>>
             ELSE IF Falsy(server_id)
             THEN /\ sent' = Send(ServerCoolingPeriodProcessor_create_error_response(
                                      message_data, "Server ID is required for cooling period",
                                      SentId(0), now), 0)
                  /\ UNCHANGED worker
             ELSE IF server_id \in DOMAIN cooling_sessions
             THEN /\ sent' = Send(ServerCoolingPeriodProcessor_create_status_response(
                                      message_data, "Server already in cooling period",
                                      SentId(0), now), 0)
                  /\ UNCHANGED worker
             ELSE /\ worker' = [worker EXCEPT ![w] = [pc |-> "insert", msg |-> message_data]]
                  /\ UNCHANGED sent
    /\ nextId' = nextId + 1
    /\ UNCHANGED <<topic, now, cooling_sessions, infos, cooling_threads, monitor, inbox,
                   routeVars, pipeVars, hostVars>>

WorkerAccept(w) == WorkerPoll(w, MaxStarts)

\* process_message: build cooling_info, then the second "with self.sessions_lock"
\* block, "self.cooling_sessions[server_id] = cooling_info"
WorkerInsert(w) ==
    /\ worker[w].pc = "insert"
    /\ LET cooling_info == new_cooling_info(worker[w].msg, now)
           ref == Cardinality(DOMAIN infos) + 1
       IN /\ infos' = Put(infos, ref, cooling_info)
          /\ cooling_sessions' = Put(cooling_sessions, cooling_info.server_id, ref)
          /\ worker' = [worker EXCEPT ![w] = [pc |-> "start", msg |-> worker[w].msg,
                                              ref |-> ref]]
    /\ UNCHANGED <<topic, nextId, now, delivered, cooling_threads, monitor, inbox, sent,
                   routeVars, pipeVars, hostVars>>

\* a thread that sleeps for the check interval before its first check
WorkerStartMonitorSleepsFirst(w) ==
    /\ worker[w].pc = "start"
    /\ monitor' = Put(monitor, worker[w].ref, [pc |-> "waiting",
                            wake |-> now + check_interval_hours, reports |-> <<>>,
                            raised |-> <<>>])
    /\ cooling_threads' = Put(cooling_threads, infos[worker[w].ref].server_id, worker[w].ref)
    /\ worker' = [worker EXCEPT ![w].pc = "respond"]
    /\ UNCHANGED <<topic, nextId, now, delivered, cooling_sessions, infos, inbox, sent,
                   routeVars, pipeVars, hostVars>>

\* _start_cooling_monitor: start the thread on (server_id, cooling_info) and register it
WorkerStartMonitor(w) ==
    /\ worker[w].pc = "start"
    /\ monitor' = Put(monitor, worker[w].ref, [pc |-> "waiting", wake |-> now, reports |-> <<>>,
                            raised |-> <<>>])
    /\ cooling_threads' = Put(cooling_threads, infos[worker[w].ref].server_id, worker[w].ref)
    /\ worker' = [worker EXCEPT ![w].pc = "respond"]
    /\ UNCHANGED <<topic, nextId, now, delivered, cooling_sessions, infos, inbox, sent,
                   routeVars, pipeVars, hostVars>>

\* process_message returns the acknowledgment and _handle_message sends it
WorkerRespond(w) ==
    /\ worker[w].pc = "respond"
    /\ sent' = Send(cooling_period_started(worker[w].msg, infos[worker[w].ref],
                                           SentId(worker[w].ref), now),
                    worker[w].ref)
    /\ worker' = [worker EXCEPT ![w] = IdleWorker]
    /\ UNCHANGED <<topic, nextId, now, delivered, cooling_sessions, infos, cooling_threads, monitor, inbox,
                   routeVars, pipeVars, hostVars>>

\* the thread is at the top of its loop: started, or its sleep is over
AtLoopTop(m) == monitor[m].pc = "waiting" /\ now >= monitor[m].wake

\* monitor_cooling_period, the period is over: _handle_cooling_complete sends the
\* demise_server message and deletes the server's session, the loop breaks and the
\* finally block drops the thread reference
MonitorCompleteKeepsEntry(m) ==
    /\ AtLoopTop(m)
    /\ cooling_period_over(infos[m], now)
    /\ sent' = Send(cooling_complete(infos[m], SentId(m), now), m)
    /\ cooling_threads' = Remove(cooling_threads, infos[m].server_id)
    /\ monitor' = [monitor EXCEPT ![m].pc = "done"]
    /\ UNCHANGED <<topic, nextId, now, delivered, infos, worker, inbox, routeVars, pipeVars,
                   hostVars, cooling_sessions>>

MonitorComplete(m) ==
    /\ AtLoopTop(m)
    /\ cooling_period_over(infos[m], now)
    /\ sent' = Send(cooling_complete(infos[m], SentId(m), now), m)
    /\ cooling_sessions' = Remove(cooling_sessions, infos[m].server_id)
    /\ cooling_threads' = Remove(cooling_threads, infos[m].server_id)
    /\ monitor' = [monitor EXCEPT ![m].pc = "done"]
    /\ UNCHANGED <<topic, nextId, now, delivered, infos, worker, inbox, routeVars, pipeVars, hostVars>>

\* monitor_cooling_period, the period is not over: _perform_power_check counts the
\* check, sets last_check and calls the oracle
MonitorBeginCheck(m) ==
    /\ AtLoopTop(m)
    /\ ~cooling_period_over(infos[m], now)
    /\ infos' = [infos EXCEPT ![m].check_count = @ + 1, ![m].last_check = now]
    /\ monitor' = [monitor EXCEPT ![m].pc = "checking"]
    /\ UNCHANGED <<topic, nextId, now, delivered, cooling_sessions, cooling_threads, worker,
                   inbox, sent, routeVars, pipeVars, hostVars>>

\* the answers of the power-status oracle; "raises": the query fails with an exception
OracleAnswers == {"on", "off", "raises"}

\* the exceptions of a check after the oracle's answer: none, or one raised in
\* _perform_power_check before it sends anything (in _handle_cooling_violation or in
\* _send_status_update)
CheckFaults == {"none", "handling"}

\* the power_info _check_server_power_status returns
PowerStatus(m, answer) ==
    IF answer = "raises"
    THEN check_server_power_status_except(now)
    ELSE check_server_power_status(infos[m].server_details, answer = "on", now)

\* the oracle answers: on "powered on" _handle_cooling_violation sends the violation
\* message and deletes the server's session; _perform_power_check logs and drops an
\* exception; then the thread sleeps for check_interval_hours
PowerCheckStepSendsUpdate(m, answer, fault) ==
    /\ monitor[m].pc = "checking"
    /\ LET power_status == PowerStatus(m, answer)
           noted == IF answer = "raises" THEN <<"oracle">> ELSE <<>>
       IN /\ monitor' = [monitor EXCEPT
                            ![m].pc = "waiting",
                            ![m].wake = now + check_interval_hours,
                            ![m].reports = Append(@, power_status.is_powered_on),
                            ![m].raised = @ \o noted \o
                                          (IF fault = "none" THEN <<>> ELSE <<fault>>)]
          /\ IF power_status.is_powered_on /\ fault = "none"
             THEN /\ sent' = Send(cooling_violation_error(infos[m], power_status,
                                                          SentId(m), now), m)
                  /\ cooling_sessions' = Remove(cooling_sessions, infos[m].server_id)
             ELSE /\ sent' = Send([action |-> "cooling_status_update"], m)
                  /\ UNCHANGED cooling_sessions
    /\ UNCHANGED <<topic, nextId, now, delivered, infos, cooling_threads, worker, inbox,
                   routeVars, pipeVars, hostVars>>

PowerCheckStep(m, answer, fault) ==
    /\ monitor[m].pc = "checking"
    /\ LET power_status == PowerStatus(m, answer)
           noted == IF answer = "raises" THEN <<"oracle">> ELSE <<>>
       IN /\ monitor' = [monitor EXCEPT
                            ![m].pc = "waiting",
                            ![m].wake = now + check_interval_hours,
                            ![m].reports = Append(@, power_status.is_powered_on),
                            ![m].raised = @ \o noted \o
                                          (IF fault = "none" THEN <<>> ELSE <<fault>>)]
          /\ IF power_status.is_powered_on /\ fault = "none"
             THEN /\ sent' = Send(cooling_violation_error(infos[m], power_status,
                                                          SentId(m), now), m)
                  /\ cooling_sessions' = Remove(cooling_sessions, infos[m].server_id)
             ELSE UNCHANGED <<sent, cooling_sessions>>
    /\ UNCHANGED <<topic, nextId, now, delivered, infos, cooling_threads, worker, inbox,
                   routeVars, pipeVars, hostVars>>

\* a check in which the oracle answers and nothing raises
MonitorPowerCheck(m) ==
    \E is_powered_on \in BOOLEAN :
        PowerCheckStep(m, IF is_powered_on THEN "on" ELSE "off", "none")

\* the polling threads that sleep in time.sleep
Sleeping == {m \in DOMAIN monitor : monitor[m].pc = "waiting" /\ monitor[m].wake > now}

\* Time passes while every thread waits: the worker loops have nothing to handle and
\* every polling thread sleeps (a check takes seconds, the sleep hours); the clock is
\* read again when the first sleep ends
Tick ==
    /\ \A w \in Workers : worker[w].pc = "idle"
    /\ Sleeping # {}
    /\ \A m \in DOMAIN monitor : monitor[m].pc # "done" => m \in Sleeping
    /\ \E m \in Sleeping :
          /\ \A other \in Sleeping : monitor[m].wake <= monitor[other].wake
          /\ now' = monitor[m].wake
    /\ UNCHANGED <<topic, nextId, delivered, cooling_sessions, infos, cooling_threads,
                   worker, monitor, inbox, sent, routeVars, pipeVars, hostVars>>

CoolingNext ==
    \/ \E w \in Workers : WorkerAccept(w)
    \/ \E w \in Workers : WorkerInsert(w)
    \/ \E w \in Workers : WorkerStartMonitor(w)
    \/ \E w \in Workers : WorkerRespond(w)
    \/ \E m \in DOMAIN monitor : MonitorComplete(m)
    \/ \E m \in DOMAIN monitor : MonitorBeginCheck(m)
    \/ \E m \in DOMAIN monitor : MonitorPowerCheck(m)
    \/ Tick

SpecCooling == CoolingInit /\ [][CoolingNext]_vars

-----------------------------------------------------------------------------
(* The cooling monitor with exceptions: the power-status query may raise, a check may
   raise after the oracle's answer, and the loop of the polling thread may raise
   outside the check. *)

MaxFaultStarts == 1

\* a power check whose query or whose handling may raise
MonitorPowerCheckRaising(m) ==
    \E answer \in OracleAnswers, fault \in CheckFaults : PowerCheckStep(m, answer, fault)

\* monitor_cooling_period, an exception outside _perform_power_check (raised by the
\* completion handling before it sends, or by the wait): _handle_cooling_error sends
\* the cooling_error message through the serializer and deletes the server's session,
\* the finally block drops the thread reference
MonitorLoopRaises(m) ==
    /\ monitor[m].pc = "waiting"
    /\ infos[m].check_count > 0 \/ cooling_period_over(infos[m], now)
    /\ sent' = SendJson(cooling_error(infos[m], ExceptionText, SentId(m), now), m)
    /\ cooling_sessions' = Remove(cooling_sessions, infos[m].server_id)
    /\ cooling_threads' = Remove(cooling_threads, infos[m].server_id)
    /\ monitor' = [monitor EXCEPT ![m].pc = "done", ![m].raised = Append(@, "loop")]
    /\ UNCHANGED <<topic, nextId, now, delivered, infos, worker, inbox, routeVars, pipeVars, hostVars>>

FaultNext ==
    \/ \E w \in Workers : WorkerPoll(w, MaxFaultStarts)
    \/ \E w \in Workers : WorkerInsert(w)
    \/ \E w \in Workers : WorkerStartMonitor(w)
    \/ \E w \in Workers : WorkerRespond(w)
    \/ \E m \in DOMAIN monitor : MonitorComplete(m)
    \/ \E m \in DOMAIN monitor : MonitorBeginCheck(m)
    \/ \E m \in DOMAIN monitor : MonitorPowerCheckRaising(m)
    \/ \E m \in DOMAIN monitor : MonitorLoopRaises(m)
    \/ Tick

SpecCoolingFaults == CoolingInit /\ [][FaultNext]_vars

-----------------------------------------------------------------------------
(* The four stages on an accepted message (SpecAccept): one call of process_message of
   the Check, PowerOff or Demise stage, or the cooling monitor with its threads *)

\* the stage that was called returns; the cooling monitor runs
AcceptNext ==
    \/ call # EmptyDict /\ StageHandle
    \/ call = EmptyDict /\ FaultNext

\* a call of one of the three stages, or the cooling monitor before any message
AcceptInit == StageInit \/ CoolingInit

SpecAccept == AcceptInit /\ [][AcceptNext]_vars

-----------------------------------------------------------------------------
(* The cooling monitor and its faults under fair scheduling (SpecCoolingLive) *)

MaxLiveStarts == 1

\* the steps of the cooling monitor, with the exceptions that leave the polling loop
LiveNext ==
    \/ \E w \in Workers : WorkerPoll(w, MaxLiveStarts)
    \/ \E w \in Workers : WorkerInsert(w)
    \/ \E w \in Workers : WorkerStartMonitor(w)
    \/ \E w \in Workers : WorkerRespond(w)
    \/ \E m \in DOMAIN monitor : MonitorComplete(m)
    \/ \E m \in DOMAIN monitor : MonitorBeginCheck(m)
    \/ \E m \in DOMAIN monitor : MonitorPowerCheck(m)
    \/ \E m \in DOMAIN monitor : MonitorLoopRaises(m)
    \/ Tick

\* the threads of the process are scheduled: a process_message that was entered goes
\* on, a polling thread that is not asleep goes on, and the clock advances while all
\* sleep; whether a further message arrives is left open
FairScheduling ==
    /\ WF_vars(\E w \in Workers :
                   WorkerInsert(w) \/ WorkerStartMonitor(w) \/ WorkerRespond(w))
    /\ WF_vars(\E m \in DOMAIN monitor :
                   \/ MonitorComplete(m)
                   \/ MonitorBeginCheck(m)
                   \/ MonitorPowerCheck(m)
                   \/ MonitorLoopRaises(m))
    /\ WF_vars(Tick)

SpecCoolingLive == CoolingInit /\ [][LiveNext]_vars /\ FairScheduling

-----------------------------------------------------------------------------
(* ServerCoolingPeriodProcessor.stop (SpecCoolingStop) *)

\* stop: under the lock the thread references and the sessions are cleared (the
\* threads are not told to stop), then BaseProcessor.stop closes the consumer and the
\* producer
CoolingStop ==
    /\ "closed" \notin DOMAIN producer
    /\ cooling_threads' = EmptyDict
    /\ cooling_sessions' = EmptyDict
    /\ producer' = [closed |-> TRUE]
    /\ UNCHANGED <<topic, nextId, now, delivered, infos, worker, monitor, inbox, sent,
                   loop, manager, sessions_lock, routeVars, pipeVars>>

SpecCoolingStop == CoolingInit /\ [][FaultNext \/ CoolingStop]_vars

-----------------------------------------------------------------------------
(* The critical sections of sessions_lock (SpecLock): process_message, the monitor
   threads and get_cooling_status, one step per lock block and per blocking call *)

MaxLockChecks == 2

LockWorkers == {1, 2}

LockServers == {"150", "srv1"}

ProcessThread(w) == <<"process", w>>

MonitorThread(m) == <<"monitor", m>>

StatusThread == <<"status">>

\* two start messages are being handled, for the same server or for two servers; each
\* process_message has read its server_id and stands before its first lock block
LockInit ==
    /\ RouteIdle
    /\ HostIdle
    /\ topic = <<>>
    /\ owner = EmptyDict
    /\ offset = EmptyDict
    /\ execLog = EmptyDict
    /\ nextId = 1
    /\ now = 0
    /\ delivered = <<>>
    /\ cooling_sessions = EmptyDict
    /\ infos = EmptyDict
    /\ cooling_threads = EmptyDict
    /\ \E server_id \in [LockWorkers -> LockServers] :
          worker = [w \in LockWorkers |-> [pc |-> "start", server_id |-> server_id[w]]]
    /\ monitor = EmptyDict
    /\ inbox = <<>>
    /\ sent = EmptyDict

\* with self.sessions_lock: in process_message, before the existence check, the
\* insertion and the registration of the thread
ProcessAcquire ==
    /\ sessions_lock = Free
    /\ \E w \in DOMAIN worker :
          /\ worker[w].pc \in {"start", "build", "started"}
          /\ sessions_lock' = ProcessThread(w)
          /\ worker' = [worker EXCEPT ![w].pc =
                           CASE worker[w].pc = "start" -> "check"
                             [] worker[w].pc = "build" -> "insert"
                             [] OTHER -> "register"]
    /\ UNCHANGED <<topic, nextId, now, delivered, inbox, sent, producer, loop, manager,
                   routeVars, pipeVars, cooling_sessions, infos, cooling_threads,
                   monitor>>

\* if server_id in self.cooling_sessions: return the status response; the block ends
\* either way, and cooling_info is built outside the lock
ProcessCheck ==
    /\ \E w \in DOMAIN worker :
          /\ worker[w].pc = "check"
          /\ sessions_lock = ProcessThread(w)
          /\ worker' = [worker EXCEPT ![w].pc =
                           IF worker[w].server_id \in DOMAIN cooling_sessions
                           THEN "respond" ELSE "build"]
    /\ sessions_lock' = Free
    /\ UNCHANGED <<topic, nextId, now, delivered, inbox, sent, producer, loop, manager,
                   routeVars, pipeVars, cooling_sessions, infos, cooling_threads,
                   monitor>>

\* self.cooling_sessions[server_id] = cooling_info, in a lock block of its own
ProcessInsert ==
    /\ \E w \in DOMAIN worker :
          /\ worker[w].pc = "insert"
          /\ sessions_lock = ProcessThread(w)
          /\ cooling_sessions' = Put(cooling_sessions, worker[w].server_id, w)
          /\ infos' = Put(infos, w, [check_count |-> 0, status |-> "monitoring"])
          /\ worker' = [worker EXCEPT ![w].pc = "start_monitor"]
    /\ sessions_lock' = Free
    /\ UNCHANGED <<topic, nextId, now, delivered, inbox, sent, producer, loop, manager,
                   routeVars, pipeVars, cooling_threads, monitor>>

\* _start_cooling_monitor: monitor_thread.start()
ProcessStartMonitor ==
    /\ \E w \in DOMAIN worker :
          /\ worker[w].pc = "start_monitor"
          /\ monitor' = Put(monitor, w, [pc |-> "top", checks |-> 0, after |-> "sleep",
                                         server_id |-> worker[w].server_id])
          /\ worker' = [worker EXCEPT ![w].pc = "started"]
    /\ UNCHANGED <<topic, nextId, now, delivered, inbox, sent, producer, loop, manager,
                   routeVars, pipeVars, cooling_sessions, infos, cooling_threads,
                   sessions_lock>>

\* self.cooling_threads[server_id] = monitor_thread, under the lock
ProcessRegister ==
    /\ \E w \in DOMAIN worker :
          /\ worker[w].pc = "register"
          /\ sessions_lock = ProcessThread(w)
          /\ cooling_threads' = Put(cooling_threads, worker[w].server_id, w)
          /\ worker' = [worker EXCEPT ![w].pc = "respond"]
    /\ sessions_lock' = Free
    /\ UNCHANGED <<topic, nextId, now, delivered, inbox, sent, producer, loop, manager,
                   routeVars, pipeVars, cooling_sessions, infos, monitor>>

\* handle_message produces the response of process_message; at pc "respond" the
\* produce is in progress
ProcessRespond ==
    /\ \E w \in DOMAIN worker :
          /\ worker[w].pc = "respond"
          /\ worker' = [worker EXCEPT ![w].pc = "done"]
    /\ UNCHANGED <<topic, nextId, now, delivered, inbox, sent, producer, loop, manager,
                   routeVars, pipeVars, cooling_sessions, infos, cooling_threads,
                   monitor, sessions_lock>>

\* the top of while True: at cooling_end _handle_cooling_complete (or, when it raises,
\* _handle_cooling_error) sends its message and the loop is left; before it the next
\* power check begins
ThreadTop ==
    /\ \E m \in DOMAIN monitor :
          /\ monitor[m].pc = "top"
          /\ monitor' = [monitor EXCEPT ![m] =
                            IF monitor[m].checks = MaxLockChecks
                            THEN [@ EXCEPT !.pc = "send", !.after = "break"]
                            ELSE [@ EXCEPT !.pc = "count"]]
    /\ UNCHANGED <<topic, nextId, now, delivered, inbox, sent, producer, loop, manager,
                   routeVars, pipeVars, cooling_sessions, infos, cooling_threads,
                   worker, sessions_lock>>

\* cooling_info['check_count'] += 1 and last_check, without the lock
ThreadCount ==
    /\ \E m \in DOMAIN monitor :
          /\ monitor[m].pc = "count"
          /\ infos' = [infos EXCEPT ![m].check_count = @ + 1]
          /\ monitor' = [monitor EXCEPT ![m].pc = "query"]
    /\ UNCHANGED <<topic, nextId, now, delivered, inbox, sent, producer, loop, manager,
                   routeVars, pipeVars, cooling_sessions, cooling_threads, worker,
                   sessions_lock>>

\* _check_server_power_status returns or raises (at pc "query" the query is in
\* progress): powered on, _handle_cooling_violation sends its message; powered off or
\* an exception, the thread goes to sleep
ThreadQueryLocked ==
    /\ \E m \in DOMAIN monitor, answer \in {"on", "off", "raises"} :
          /\ monitor[m].pc = "query"
          /\ monitor' = [monitor EXCEPT ![m] =
                            IF answer = "on"
                            THEN [@ EXCEPT !.pc = "send", !.after = "sleep"]
                            ELSE [@ EXCEPT !.pc = "sleep"]]
          /\ IF answer = "on"
             THEN sessions_lock = Free /\ sessions_lock' = MonitorThread(m)
             ELSE UNCHANGED sessions_lock
    /\ UNCHANGED <<topic, nextId, now, delivered, inbox, sent, producer, loop, manager,
                   routeVars, pipeVars, cooling_sessions, infos, cooling_threads,
                   worker>>

ThreadQuery ==
    /\ \E m \in DOMAIN monitor, answer \in {"on", "off", "raises"} :
          /\ monitor[m].pc = "query"
          /\ monitor' = [monitor EXCEPT ![m] =
                            IF answer = "on"
                            THEN [@ EXCEPT !.pc = "send", !.after = "sleep"]
                            ELSE [@ EXCEPT !.pc = "sleep"]]
    /\ UNCHANGED <<topic, nextId, now, delivered, inbox, sent, producer, loop, manager,
                   routeVars, pipeVars, cooling_sessions, infos, cooling_threads,
                   worker, sessions_lock>>

\* _send_response of a handler returns (at pc "send" the produce is in progress)
ThreadSent ==
    /\ \E m \in DOMAIN monitor :
          /\ monitor[m].pc = "send"
          /\ monitor' = [monitor EXCEPT ![m].pc = "handled"]
    /\ UNCHANGED <<topic, nextId, now, delivered, inbox, sent, producer, loop, manager,
                   routeVars, pipeVars, cooling_sessions, infos, cooling_threads,
                   worker, sessions_lock>>

\* with self.sessions_lock: in a handler, before the removal, and in the finally of
\* the thread
ThreadAcquire ==
    /\ sessions_lock = Free
    /\ \E m \in DOMAIN monitor :
          /\ monitor[m].pc \in {"handled", "exit"}
          /\ sessions_lock' = MonitorThread(m)
          /\ monitor' = [monitor EXCEPT ![m].pc =
                            IF monitor[m].pc = "handled" THEN "remove" ELSE "finally"]
    /\ UNCHANGED <<topic, nextId, now, delivered, inbox, sent, producer, loop, manager,
                   routeVars, pipeVars, cooling_sessions, infos, cooling_threads,
                   worker>>

\* if server_id in self.cooling_sessions: del self.cooling_sessions[server_id]; after
\* a violation the thread sleeps and goes on, after the end of the period it leaves
\* the loop
ThreadRemove ==
    /\ \E m \in DOMAIN monitor :
          /\ monitor[m].pc = "remove"
          /\ sessions_lock = MonitorThread(m)
          /\ cooling_sessions' = Remove(cooling_sessions, monitor[m].server_id)
          /\ monitor' = [monitor EXCEPT ![m].pc =
                            IF monitor[m].after = "sleep" THEN "sleep" ELSE "exit"]
    /\ sessions_lock' = Free
    /\ UNCHANGED <<topic, nextId, now, delivered, inbox, sent, producer, loop, manager,
                   routeVars, pipeVars, infos, cooling_threads, worker>>

\* time.sleep(sleep_seconds) returns (at pc "sleep" the thread is asleep)
ThreadWake ==
    /\ \E m \in DOMAIN monitor :
          /\ monitor[m].pc = "sleep"
          /\ monitor' = [monitor EXCEPT ![m].pc = "top", ![m].checks = @ + 1]
    /\ UNCHANGED <<topic, nextId, now, delivered, inbox, sent, producer, loop, manager,
                   routeVars, pipeVars, cooling_sessions, infos, cooling_threads,
                   worker, sessions_lock>>

\* finally: if server_id in self.cooling_threads: del self.cooling_threads[server_id]
ThreadFinally ==
    /\ \E m \in DOMAIN monitor :
          /\ monitor[m].pc = "finally"
          /\ sessions_lock = MonitorThread(m)
          /\ cooling_threads' = Remove(cooling_threads, monitor[m].server_id)
          /\ monitor' = [monitor EXCEPT ![m].pc = "ended"]
    /\ sessions_lock' = Free
    /\ UNCHANGED <<topic, nextId, now, delivered, inbox, sent, producer, loop, manager,
                   routeVars, pipeVars, cooling_sessions, infos, worker>>

\* get_cooling_status: the snapshot is built under the lock
StatusAcquire ==
    /\ sessions_lock = Free
    /\ sessions_lock' = StatusThread
    /\ UNCHANGED <<topic, nextId, producer, loop, manager, routeVars, pipeVars,
                   coolVars>>

StatusRead ==
    /\ sessions_lock = StatusThread
    /\ sessions_lock' = Free
    /\ UNCHANGED <<topic, nextId, producer, loop, manager, routeVars, pipeVars,
                   coolVars>>

LockNext ==
    \/ ProcessAcquire \/ ProcessCheck \/ ProcessInsert \/ ProcessStartMonitor
    \/ ProcessRegister \/ ProcessRespond
    \/ ThreadTop \/ ThreadCount \/ ThreadQuery \/ ThreadSent \/ ThreadAcquire
    \/ ThreadRemove \/ ThreadWake \/ ThreadFinally
    \/ StatusAcquire \/ StatusRead

SpecLock == LockInit /\ [][LockNext]_vars

-----------------------------------------------------------------------------
(* KafkaProducerWrapper.send_message (SpecSend) *)

MaxSends == 2

\* no exception
NoException == "none"

\* the exception classes under kafka.errors.KafkaError
KafkaErrors == {"KafkaError", "KafkaTimeoutError"}

\* the exception classes under Exception
Exceptions == KafkaErrors \cup {"TypeError", "RuntimeError"}

\* what becomes of a record handed to the producer: acknowledged by the broker, refused
\* by the broker, not acknowledged within the timeout, or not taken by the producer
BrokerAnswers == {"acknowledged", "broker_error", "timeout", "producer_fails"}

\* the connection test message of the REST API, and one whose timestamp is a datetime
\* object
WrapperMessages ==
    {[test |-> Typed("str", "connection"), timestamp |-> Typed("str", IsoFormat(0))],
     [test |-> Typed("str", "connection"), timestamp |-> Typed("datetime", IsoFormat(0))]}

WrapperKeys == {None, "health_check"}

\* value_serializer, json.dumps: TypeError on a datetime object
value_serializer_raises(message) ==
    \E k \in DOMAIN message : message[k][1] = "datetime"

\* key_serializer: str(k).encode('utf-8') if k else None
key_serializer(key) == IF Falsy(key) THEN None ELSE Typed("bytes", key)

\* the exception of producer.send(...) followed by future.get(timeout=10)
SendRaises(message, answer) ==
    IF value_serializer_raises(message) THEN "TypeError"
    ELSE CASE answer = "acknowledged" -> NoException
           [] answer = "broker_error" -> "KafkaError"
           [] answer = "timeout" -> "KafkaTimeoutError"
           [] answer = "producer_fails" -> "RuntimeError"

\* a send_message that catches KafkaError only
SendMessageCatchesKafkaError(message, key, answer) ==
    LET exception == SendRaises(message, answer) IN
    IF exception = NoException THEN [returned |-> TRUE, raised |-> NoException]
    ELSE IF exception \in KafkaErrors THEN [returned |-> FALSE, raised |-> NoException]
    ELSE [returned |-> FALSE, raised |-> exception]

\* send_message: try / except KafkaError / except Exception; "raised" is the exception
\* that leaves the method
send_message(message, key, answer) ==
    LET exception == SendRaises(message, answer) IN
    IF exception = NoException THEN [returned |-> TRUE, raised |-> NoException]
    ELSE IF exception \in KafkaErrors THEN [returned |-> FALSE, raised |-> NoException]
    ELSE IF exception \in Exceptions THEN [returned |-> FALSE, raised |-> NoException]
    ELSE [returned |-> FALSE, raised |-> exception]

\* every component but the producer wrapper is idle
SendInit ==
    /\ RouteIdle
    /\ CoolingIdle
    /\ topic = <<>>
    /\ nextId = 1
    /\ owner = EmptyDict
    /\ offset = EmptyDict
    /\ execLog = EmptyDict
    /\ sessions_lock = Free
    /\ producer = [log |-> <<>>, calls |-> <<>>]
    /\ loop = EmptyDict
    /\ manager = EmptyDict

\* a caller sends a message; the broker's log gets the acknowledged record
SendMessage ==
    /\ Len(producer.calls) < MaxSends
    /\ \E message \in WrapperMessages, key \in WrapperKeys, answer \in BrokerAnswers :
          LET acknowledged == SendRaises(message, answer) = NoException IN
          producer' = [log |-> IF acknowledged
                               THEN Append(producer.log,
                                           [value |-> message, key |-> key_serializer(key)])
                               ELSE producer.log,
                       calls |-> Append(producer.calls,
                                        [message |-> message, key |-> key,
                                         answer |-> answer, acknowledged |-> acknowledged,
                                         result |-> send_message(message, key, answer)])]
    /\ UNCHANGED <<topic, nextId, loop, manager, sessions_lock, routeVars, pipeVars, coolVars>>

SpecSend == SendInit /\ [][SendMessage]_vars

-----------------------------------------------------------------------------
(* BaseProcessor._handle_message of the Check, PowerOff and Demise stages with the
   produce call of _send_response (SpecDeliver) *)

\* _handle_message on the accepted message: process_message returns the message,
\* _send_response hands it to the producer and waits for future.get(timeout=5); an
\* exception of the produce call is logged. The record is on the topic after an
\* acknowledgement, is not after an error, and may or may not be written after a
\* timeout
HandleMessage ==
    /\ reply = EmptyDict
    /\ should_process_message(call.stage, call.message)
    /\ \E answer \in BrokerAnswers, written \in BOOLEAN :
          LET message == process_message_try(call.stage, call.message, call.fault,
                                             call.result, nextId, now)
          IN /\ answer = "acknowledged" => written
             /\ answer \in {"broker_error", "producer_fails"} => ~written
             /\ reply' = [msg |-> message,
                          asked |-> OracleAsked(call.message, call.fault),
                          answer |-> answer]
             /\ topic' = IF written
                         THEN Append(topic, [msg |-> message, part |-> 1, run |-> 0,
                                             from |-> 0, at |-> now])
                         ELSE topic
    /\ UNCHANGED <<probe, verdict, call, nextId, pipeVars, coolVars, hostVars>>

SpecDeliver == StageInit /\ [][HandleMessage]_vars

-----------------------------------------------------------------------------
(* BaseProcessor._handle_message on any message (SpecFilter): the filter, and the
   handling of the message it accepts *)

\* the payloads of the probed messages: no data key, an empty dict, a server_id, a
\* server_id among other keys
FilterPayloads ==
    {<<>>, <<EmptyDict>>, <<[server_id |-> "150"]>>,
     <<[server_id |-> "150", server_details |-> [ip_address |-> "10.0.0.1"],
        original_request |-> [reason |-> "Server decommission"]]>>}

\* a message with the given action, status and payload, and an id
FilterMessage(a, s, payload) ==
    [k \in {"id"} \cup (IF a = None THEN {} ELSE {"action"})
                  \cup (IF s = None THEN {} ELSE {"status"})
                  \cup (IF payload = <<>> THEN {} ELSE {"data"}) |->
        CASE k = "id" -> 1
          [] k = "action" -> a
          [] k = "status" -> s
          [] k = "data" -> payload[1]]

FilterCalls ==
    {[stage |-> stage, message |-> FilterMessage(a, s, payload)] :
        stage \in Stages, a \in EmittedActions \cup {None},
        s \in EmittedStatuses \cup {None}, payload \in FilterPayloads}

FilterInit ==
    /\ call \in FilterCalls
    /\ reply = EmptyDict
    /\ probe = EmptyDict
    /\ verdict = UnsetVerdict
    /\ HostIdle
    /\ CoolingIdle
    /\ topic = <<>>
    /\ nextId = 2
    /\ owner = EmptyDict
    /\ offset = EmptyDict
    /\ execLog = EmptyDict

\* _handle_message: a message the filter rejects is dropped by the first return; the
\* cooling monitor takes an accepted start message, another stage runs
\* process_message and sends its result
FilterHandle ==
    /\ reply = EmptyDict
    /\ IF ~should_process_message(call.stage, call.message)
       THEN /\ reply' = [accepted |-> FALSE]
            /\ UNCHANGED <<topic, nextId, inbox>>
       ELSE /\ reply' = [accepted |-> TRUE]
            /\ IF call.stage = "cooling"
               THEN /\ inbox' = Append(inbox, call.message)
                    /\ UNCHANGED <<topic, nextId>>
               ELSE /\ \E result \in OracleResults(call.stage) :
                          topic' = Append(topic,
                              [msg |-> process_message(call.stage, call.message, result,
                                                       nextId, now),
                               part |-> 1, run |-> 0, from |-> 0, at |-> now])
                    /\ nextId' = nextId + 1
                    /\ UNCHANGED inbox
    /\ UNCHANGED <<probe, verdict, call, pipeVars, hostVars, now, delivered,
                   cooling_sessions, infos, cooling_threads, worker, monitor, sent>>

SpecFilter == FilterInit /\ [][FilterHandle]_vars

-----------------------------------------------------------------------------
(* The poll loops (SpecLoop): ServerDemisePipelineManager._run_processor with
   BaseProcessor.run_once, and KafkaConsumerWrapper.start_consuming *)

MaxMessages == 3

LoopKinds == {"run_processor", "start_consuming"}

\* what the value_deserializer json.loads makes of the records of the topic: a dict, or
\* another JSON value
LoopValues == {Typed("dict", IngressMessage("150", 1, 0)), Typed("list", <<>>)}

\* the handling of the value raises: message_data.get(...) on a value that is no dict
\* (AttributeError)
HandlerRaises(value) == value[1] # "dict"

\* a per-message step without a try: the exception drops the rest of the batch and
\* ends the loop
HandleOneUncaught(l, value) ==
    IF HandlerRaises(value)
    THEN [l EXCEPT !.handled = Append(@, value), !.batch = <<>>, !.pc = "ended"]
    ELSE [l EXCEPT !.handled = Append(@, value), !.batch = Tail(@),
                   !.pc = IF Len(l.batch) = 1 THEN "poll" ELSE "batch"]

\* the loop after one message of the batch: run_once calls _handle_message in a try
\* (and _handle_message has its own), start_consuming submits _process_message, which
\* calls the handler in a try; the exception is logged
HandleOne(l, value) ==
    [l EXCEPT !.handled = Append(@, value),
              !.logged = IF HandlerRaises(value) THEN Append(@, "Error processing message")
                         ELSE @,
              !.batch = Tail(@),
              !.pc = IF Len(l.batch) = 1 THEN "poll" ELSE "batch"]

\* a loop of either kind and the records its consumer will get: a _run_processor
\* loop is submitted when running is set; the thread of start_consuming is started
\* with running false (KafkaConsumerWrapper.__init__) and sets it itself
LoopInit ==
    /\ RouteIdle
    /\ CoolingIdle
    /\ topic = <<>>
    /\ nextId = 1
    /\ owner = EmptyDict
    /\ offset = EmptyDict
    /\ execLog = EmptyDict
    /\ sessions_lock = Free
    /\ producer = EmptyDict
    /\ manager = EmptyDict
    /\ \E kind \in LoopKinds, records \in [1..MaxMessages -> LoopValues] :
          loop = [kind |-> kind, running |-> kind = "run_processor",
                  pc |-> IF kind = "run_processor" THEN "poll" ELSE "starting",
                  stopped |-> FALSE, closed |-> FALSE, records |-> records,
                  position |-> 0, batch |-> <<>>, handled |-> <<>>, logged |-> <<>>]

\* start_consuming up to its loop: the consumer is created and self.running = True
LoopStart ==
    /\ loop.pc = "starting"
    /\ loop' = [loop EXCEPT !.running = TRUE, !.pc = "poll"]
    /\ UNCHANGED <<topic, nextId, producer, manager, sessions_lock, routeVars, pipeVars,
                   coolVars>>

\* consumer.poll returns the next records (none at a timeout), or raises: the
\* exception is logged and the loop polls again
LoopPoll ==
    /\ loop.pc = "poll" /\ loop.running
    /\ \/ \E n \in 1..(Len(loop.records) - loop.position) :
             loop' = [loop EXCEPT
                         !.batch = SubSeq(loop.records, loop.position + 1,
                                          loop.position + n),
                         !.position = @ + n,
                         !.pc = "batch"]
       \/ /\ Len(loop.logged) < MaxMessages
          /\ loop' = [loop EXCEPT !.logged = Append(@, "Error while polling")]
    /\ UNCHANGED <<topic, nextId, producer, manager, sessions_lock, routeVars, pipeVars,
                   coolVars>>

\* the next message of the batch; start_consuming skips it once running is false, and
\* its executor.submit raises after stop_consuming has shut the executor down: the
\* exception leaves the batch and is logged by the poll loop
LoopHandle ==
    /\ loop.pc = "batch"
    /\ loop' = IF loop.kind = "start_consuming" /\ ~loop.running
               THEN [loop EXCEPT !.batch = Tail(@),
                                 !.pc = IF Len(loop.batch) = 1 THEN "poll" ELSE "batch"]
               ELSE IF loop.kind = "start_consuming" /\ loop.closed
               THEN [loop EXCEPT !.batch = <<>>, !.pc = "poll",
                                 !.logged = Append(@, "Error while polling")]
               ELSE HandleOne(loop, Head(loop.batch))
    /\ UNCHANGED <<topic, nextId, producer, manager, sessions_lock, routeVars, pipeVars,
                   coolVars>>

\* the stop request: ServerDemisePipelineManager.stop / stop_consuming clears the
\* running flag
LoopStop ==
    /\ ~loop.stopped
    /\ loop' = [loop EXCEPT !.running = FALSE, !.stopped = TRUE]
    /\ UNCHANGED <<topic, nextId, producer, manager, sessions_lock, routeVars, pipeVars,
                   coolVars>>

\* the stop request goes on: processor.stop() closes the consumer and the producer
\* of the stage (stop_consuming closes the consumer); executor.shutdown comes after it
LoopClose ==
    /\ loop.stopped /\ ~loop.closed
    /\ loop' = [loop EXCEPT !.closed = TRUE]
    /\ UNCHANGED <<topic, nextId, producer, manager, sessions_lock, routeVars, pipeVars,
                   coolVars>>

\* while self.running: the loop ends when the flag is false
LoopExit ==
    /\ loop.pc = "poll" /\ ~loop.running
    /\ loop' = [loop EXCEPT !.pc = "ended"]
    /\ UNCHANGED <<topic, nextId, producer, manager, sessions_lock, routeVars, pipeVars,
                   coolVars>>

LoopNext == LoopStart \/ LoopPoll \/ LoopHandle \/ LoopStop \/ LoopClose \/ LoopExit

SpecLoop == LoopInit /\ [][LoopNext]_vars

-----------------------------------------------------------------------------
(* The worker pool of KafkaConsumerWrapper (SpecPool): start_consuming submits
   every polled record to a ThreadPoolExecutor(max_workers) *)

MaxPoolRecords == 4

\* max_workers of the wrapper (the default is 2)
PoolWorkers == {1, 2}

\* the wrapper after __init__ and the start of start_consuming: running, nothing polled,
\* an executor without work; the records of the topic are numbered by their offset
PoolInit ==
    /\ RouteIdle
    /\ CoolingIdle
    /\ topic = <<>>
    /\ nextId = 1
    /\ owner = EmptyDict
    /\ offset = EmptyDict
    /\ execLog = EmptyDict
    /\ sessions_lock = Free
    /\ producer = EmptyDict
    /\ manager = EmptyDict
    /\ \E max_workers \in PoolWorkers :
          loop = [max_workers |-> max_workers, running |-> TRUE, position |-> 0,
                  polls |-> 0, queue |-> <<>>, active |-> {}, handled |-> {}]

\* one pass of while self.running: consumer.poll returns a batch (empty after the
\* timeout) and every record of it is submitted; submit only queues the work item and
\* returns
PoolPoll ==
    /\ loop.running
    /\ loop.polls < MaxPoolRecords
    /\ \E n \in 0..(MaxPoolRecords - loop.position) :
          loop' = [loop EXCEPT !.position = @ + n,
                               !.polls = @ + 1,
                               !.queue = @ \o [i \in 1..n |->
                                                 [offset |-> loop.position + i,
                                                  poll |-> loop.polls + 1]]]
    /\ UNCHANGED <<topic, nextId, routeVars, pipeVars, coolVars, producer, manager,
                   sessions_lock>>

\* a worker thread of the executor takes the next work item; the executor has at most
\* max_workers threads, and each runs one _process_message at a time
PoolTakeUnbounded ==
    /\ loop.queue # <<>>
    /\ loop' = [loop EXCEPT !.queue = Tail(@), !.active = @ \cup {Head(loop.queue)}]
    /\ UNCHANGED <<topic, nextId, routeVars, pipeVars, coolVars, producer, manager,
                   sessions_lock>>

PoolTake ==
    /\ loop.queue # <<>>
    /\ Cardinality(loop.active) < loop.max_workers
    /\ loop' = [loop EXCEPT !.queue = Tail(@), !.active = @ \cup {Head(loop.queue)}]
    /\ UNCHANGED <<topic, nextId, routeVars, pipeVars, coolVars, producer, manager,
                   sessions_lock>>

\* _process_message returns: the handler has returned or its exception was logged
PoolFinish ==
    /\ \E item \in loop.active :
          loop' = [loop EXCEPT !.active = @ \ {item}, !.handled = @ \cup {item}]
    /\ UNCHANGED <<topic, nextId, routeVars, pipeVars, coolVars, producer, manager,
                   sessions_lock>>

PoolNext == PoolPoll \/ PoolTake \/ PoolFinish

SpecPool == PoolInit /\ [][PoolNext]_vars

-----------------------------------------------------------------------------
(* ServerDemisePipelineManager.start (SpecManager) *)

\* the processor_config_key of the four processors, in the order of construction
ProcessorKeys == <<"server_check_processor", "server_poweroff_processor",
                   "server_cooling_processor", "server_demise_processor">>

\* config['processors'][key]: no entry (as the default configuration has none for the
\* cooling processor), an entry without max_workers, or an entry with max_workers
ProcessorSettings ==
    {<<"absent">>, <<"no_max_workers">>, <<"max_workers", 0>>, <<"max_workers", 1>>,
     <<"max_workers", 2>>}

\* initialize_processors: the constructors run in order; BaseProcessor.__init__ reads
\* config['processors'][key] (KeyError) and opens the Kafka clients (raises when no
\* broker answers). "opened": the processors constructed before the failure
initialize_processors(config, broker_up) ==
    LET failing == {i \in 1..Len(ProcessorKeys) :
                       ~broker_up \/ config[ProcessorKeys[i]][1] = "absent"}
        first == IF failing = {} THEN Len(ProcessorKeys) + 1
                 ELSE CHOOSE i \in failing : \A j \in failing : i <= j
    IN [ok |-> failing = {},
        processors |-> IF failing = {} THEN ProcessorKeys ELSE <<>>,
        opened |-> SubSeq(ProcessorKeys, 1, first - 1)]

\* the worker loops start submits, in order: max_workers of each processor (none
\* where the key is missing: start fails before it submits)
RECURSIVE WorkerJobs(_, _)
WorkerJobs(config, i) ==
    IF i > Len(ProcessorKeys) THEN <<>>
    ELSE LET setting == config[ProcessorKeys[i]]
             max_workers == IF setting[1] = "max_workers" THEN setting[2] ELSE 0
         IN [w \in 1..max_workers |-> <<ProcessorKeys[i], w - 1>>]
            \o WorkerJobs(config, i + 1)

\* sum(config['processors'][proc.processor_config_key]['max_workers'] for proc in
\* self.processors)
RECURSIVE TotalWorkers(_, _)
TotalWorkers(config, i) ==
    IF i > Len(ProcessorKeys) THEN 0
    ELSE config[ProcessorKeys[i]][2] + TotalWorkers(config, i + 1)

\* the try block of start: self.running = True, the sum of the max_workers (KeyError
\* without the key), ThreadPoolExecutor (ValueError when the sum is 0), the submits
\* (the failing-th raises, 0: none raises); the except branch returns False; pool: max_workers of
\* the executor
StartTryPoolPerProcessor(m, failing) ==
    IF \E i \in 1..Len(ProcessorKeys) : m.config[ProcessorKeys[i]][1] = "no_max_workers"
    THEN [m EXCEPT !.running = TRUE, !.returned = "False"]
    ELSE LET jobs == WorkerJobs(m.config, 1) IN
         IF jobs = <<>>
         THEN [m EXCEPT !.running = TRUE, !.returned = "False"]
         ELSE IF failing \in 1..Len(jobs)
         THEN [m EXCEPT !.running = TRUE, !.executor = "ThreadPoolExecutor",
                        !.pool = Len(m.processors),
                        !.workers = SubSeq(jobs, 1, failing - 1), !.returned = "False"]
         ELSE [m EXCEPT !.running = TRUE, !.executor = "ThreadPoolExecutor",
                        !.pool = Len(m.processors),
                        !.workers = jobs, !.status = "running", !.returned = "True"]

start_try(m, failing) ==
    IF \E i \in 1..Len(ProcessorKeys) : m.config[ProcessorKeys[i]][1] = "no_max_workers"
    THEN [m EXCEPT !.running = TRUE, !.returned = "False"]
    ELSE LET jobs == WorkerJobs(m.config, 1) IN
         IF jobs = <<>>
         THEN [m EXCEPT !.running = TRUE, !.returned = "False"]
         ELSE IF failing \in 1..Len(jobs)
         THEN [m EXCEPT !.running = TRUE, !.executor = "ThreadPoolExecutor",
                        !.pool = TotalWorkers(m.config, 1),
                        !.workers = SubSeq(jobs, 1, failing - 1), !.returned = "False"]
         ELSE [m EXCEPT !.running = TRUE, !.executor = "ThreadPoolExecutor",
                        !.pool = TotalWorkers(m.config, 1),
                        !.workers = jobs, !.status = "running", !.returned = "True"]

\* the manager after __init__, with its configuration and the state of the broker
ManagerInit ==
    /\ RouteIdle
    /\ CoolingIdle
    /\ topic = <<>>
    /\ nextId = 1
    /\ owner = EmptyDict
    /\ offset = EmptyDict
    /\ execLog = EmptyDict
    /\ sessions_lock = Free
    /\ producer = EmptyDict
    /\ loop = EmptyDict
    /\ \E config \in [{ProcessorKeys[i] : i \in 1..Len(ProcessorKeys)} -> ProcessorSettings],
          broker_up \in BOOLEAN :
          manager = [pc |-> "constructed", config |-> config, broker_up |-> broker_up,
                     processors |-> <<>>, opened |-> <<>>, running |-> FALSE,
                     executor |-> None, pool |-> 0, workers |-> <<>>, started |-> 0,
                     status |-> None, returned |-> None]

\* start up to the return of initialize_processors: False is returned when it failed
ManagerInitialize ==
    /\ manager.pc = "constructed"
    /\ LET init == initialize_processors(manager.config, manager.broker_up) IN
       manager' = [manager EXCEPT
                      !.processors = init.processors,
                      !.opened = init.opened,
                      !.status = IF init.ok THEN "starting" ELSE "failed",
                      !.returned = IF init.ok THEN None ELSE "False",
                      !.pc = IF init.ok THEN "initialized" ELSE "returned"]
    /\ UNCHANGED <<topic, nextId, producer, loop, sessions_lock, routeVars, pipeVars,
                   coolVars>>

\* the try block of start
ManagerRun ==
    /\ manager.pc = "initialized"
    /\ \E failing \in 0..Len(WorkerJobs(manager.config, 1)) :
          manager' = [start_try(manager, failing) EXCEPT !.pc = "returned"]
    /\ UNCHANGED <<topic, nextId, producer, loop, sessions_lock, routeVars, pipeVars,
                   coolVars>>

\* a thread of the executor takes the next submitted _run_processor; the loop does not
\* return while self.running, so the thread is never free again
ManagerWorkerRuns ==
    /\ manager.pc = "returned"
    /\ manager.executor = "ThreadPoolExecutor"
    /\ manager.started < Len(manager.workers)
    /\ manager.started < manager.pool
    /\ manager' = [manager EXCEPT !.started = @ + 1]
    /\ UNCHANGED <<topic, nextId, producer, loop, sessions_lock, routeVars, pipeVars,
                   coolVars>>

ManagerNext == ManagerInitialize \/ ManagerRun \/ ManagerWorkerRuns

SpecManager == ManagerInit /\ [][ManagerNext]_vars

-----------------------------------------------------------------------------
(* Properties of the cooling monitor, under SpecCooling *)

\* the sessions for which a polling thread was started
Sessions == DOMAIN monitor

\* the messages sent for a session, in the order they were sent
SentFor(m) == GetOr(sent, m, <<>>)

IsViolation(message) == message.action = "cooling_violation_error"

\* the successor message of a completed cooling period
IsCompletion(message) == message.action = "demise_server" /\ message.status = "pending"

\* an outcome message of a session
IsOutcome(message) ==
    message.action \in {"demise_server", "cooling_violation_error", "cooling_error"}

\* the polling thread of the session has not returned
Live(m) == monitor[m].pc # "done"

\* no outcome message was sent for the session yet
InFlight(m) == \A i \in 1..Len(SentFor(m)) : ~IsOutcome(SentFor(m)[i].msg)

\* C2: once a cooling_violation_error message was sent for a session, no
\* demise_server/pending message is sent for the same session afterwards.
C2_ViolationIsFinal ==
    \A m \in Sessions : \A i, j \in 1..Len(SentFor(m)) :
        (i < j /\ IsViolation(SentFor(m)[i].msg)) => ~IsCompletion(SentFor(m)[j].msg)

\* C3: a server_id never has two live polling tasks whose sessions are both still in
\* flight: a second start for a server whose session is in flight starts no second
\* task.
C3_OnePollingTaskPerServer ==
    \A m1, m2 \in Sessions :
        (/\ m1 # m2
         /\ infos[m1].server_id = infos[m2].server_id
         /\ Live(m1) /\ InFlight(m1)
         /\ Live(m2) /\ InFlight(m2)) => FALSE

\* the violation messages of session m that record check number k
ViolationsAt(m, k) ==
    {i \in 1..Len(SentFor(m)) :
        LET message == SentFor(m)[i].msg IN
        /\ IsViolation(message)
        /\ message.status = "violation_error"
        /\ IsTerminal(message)
        /\ message.data.violation_details.check_number = k}

\* the session map holds session m
InMap(m) ==
    /\ infos[m].server_id \in DOMAIN cooling_sessions
    /\ cooling_sessions[infos[m].server_id] = m

\* C8: when the oracle has reported powered-on at the k-th check of a session, a
\* cooling_violation_error message with status violation_error and
\* pipeline_complete = true that records check number k was sent for the session, k
\* is the number of checks made in the session until then, and the session is not in
\* the session map.
C8_ViolationRecordsCheck ==
    \A m \in Sessions : \A k \in 1..Len(monitor[m].reports) :
        monitor[m].reports[k] =>
            /\ ViolationsAt(m, k) # {}
            /\ k <= infos[m].check_count
            /\ ~InMap(m)

\* a session whose third check found the server powered on
C8_Witness ==
    \E m \in Sessions :
        /\ Len(monitor[m].reports) >= 3
        /\ monitor[m].reports[3]
        /\ ViolationsAt(m, 3) # {}

\* C9: a demise_server/pending message of the cooling monitor is sent only when the
\* time since the session's cooling_start is at least cooling_period_hours.
C9_CompleteAfterPeriod ==
    \A m \in Sessions : \A i \in 1..Len(SentFor(m)) :
        IsCompletion(SentFor(m)[i].msg) =>
            SentFor(m)[i].at - infos[m].cooling_start >= cooling_period_hours

\* a session that completed
C9_Witness ==
    \E m \in Sessions : \E i \in 1..Len(SentFor(m)) :
        /\ IsCompletion(SentFor(m)[i].msg)
        /\ SentFor(m)[i].at - infos[m].cooling_start >= cooling_period_hours

\* C12: the entry of a session leaves the session map by the session's own terminal
\* branch and not before: a session whose polling task runs and that has sent no
\* outcome message is in the map (every session is removed exactly once, by its
\* terminal branch).
C12_RemovedByOwnTerminalBranch ==
    \A m \in Sessions : (Live(m) /\ InFlight(m)) => InMap(m)

\* the outcome messages sent for the session
Outcomes(m) == {i \in 1..Len(SentFor(m)) : IsOutcome(SentFor(m)[i].msg)}

\* C13: the polling task stops at the session's terminal transition, so that a session
\* sends at most one outcome message (demise_server/pending, cooling_violation_error
\* or cooling_error) and makes no oracle check after it.
C13_OneOutcome ==
    \A m \in Sessions :
        /\ Cardinality(Outcomes(m)) <= 1
        /\ \A i \in Outcomes(m) : infos[m].last_check <= SentFor(m)[i].at

\* the polling thread of the session is inside _perform_power_check, waiting for the
\* oracle
Checking(m) == monitor[m].pc = "checking"

\* C14: at any time and for any server_id at most one oracle power check is in
\* progress.
C14_ChecksDoNotOverlap ==
    \A m1, m2 \in Sessions :
        (m1 # m2 /\ infos[m1].server_id = infos[m2].server_id)
            => ~(Checking(m1) /\ Checking(m2))

-----------------------------------------------------------------------------
(* Properties of the cooling monitor with exceptions, under SpecCoolingFaults *)

\* the exceptions the step has added to the record of the session's thread
NewlyRaised(m) == SubSeq(monitor'[m].raised, Len(monitor[m].raised) + 1,
                         Len(monitor'[m].raised))

\* C15: a power check whose oracle query raises is treated as "powered off": the
\* step sends no message, leaves the session map alone and the session in status
\* monitoring, and the polling thread sleeps until its next check.
C15_QueryFailureIsOff ==
    [][\A m \in Sessions :
          (NewlyRaised(m) # <<>> /\ NewlyRaised(m)[1] = "oracle")
              => /\ sent' = sent
                 /\ cooling_sessions' = cooling_sessions
                 /\ infos'[m].status = "monitoring"
                 /\ monitor'[m].pc = "waiting"
                 /\ monitor'[m].wake = now + check_interval_hours]_vars

\* a session whose query has raised, and that is still monitored and in the map
C15_Witness ==
    \E m \in Sessions :
        /\ monitor[m].raised = <<"oracle">>
        /\ monitor[m].reports = <<FALSE>>
        /\ monitor[m].pc = "waiting"
        /\ InMap(m)
        /\ SentFor(m) # <<>>
        /\ InFlight(m)

\* a terminal cooling_error message
IsCoolingError(message) ==
    /\ message.action = "cooling_error"
    /\ message.status = "error"
    /\ IsTerminal(message)

\* C16: after an exception of the power check's handling or of the loop of the polling
\* thread, a terminal cooling_error message (status error, pipeline_complete true) was
\* sent for the session and the session is not in the session map.
C16_EscapedExceptionIsError ==
    \A m \in Sessions :
        (\E i \in 1..Len(monitor[m].raised) : monitor[m].raised[i] \in {"handling", "loop"})
            => /\ \E j \in 1..Len(SentFor(m)) : IsCoolingError(SentFor(m)[j].msg)
               /\ ~InMap(m)

-----------------------------------------------------------------------------
(* Properties of process_message (SpecStage) *)

\* process_message has returned
Replied == "msg" \in DOMAIN reply

\* the stage failed on the message: the oracle was asked and raised or reported a
\* failure (for Check: the server is not in the portal), or the handler raised
StageFailed ==
    \/ call.fault = "handler_raises"
    \/ /\ OracleAsked(call.message, call.fault)
       /\ \/ call.fault = "oracle_raises"
          \/ StageOutcome(call.stage, call.message, call.result) = "oracle_failed"

\* C11: when the Check, PowerOff or Demise stage fails on an accepted message (the
\* oracle reports a failure, or an exception is raised), the message it emits has
\* action demise_complete, status failed or error, pipeline_complete = true, and the
\* data payload of the incoming message.
C11_FailureIsTerminal ==
    (Replied /\ StageFailed) =>
        /\ reply.msg.action = "demise_complete"
        /\ reply.msg.status \in {"failed", "error"}
        /\ IsTerminal(reply.msg)
        /\ reply.msg.data = call.message.data

\* the PowerOff oracle raised and the stage has answered
C11_Witness ==
    /\ Replied
    /\ StageFailed
    /\ call.stage = "poweroff"
    /\ call.fault = "oracle_raises"
    /\ reply.msg.status = "failed"

-----------------------------------------------------------------------------
(* Properties of KafkaProducerWrapper.send_message (SpecSend) *)

\* the calls of send_message made so far
SendCalls == IF "calls" \in DOMAIN producer THEN producer.calls ELSE <<>>

\* C17: send_message never raises; it returns True when the broker acknowledged the
\* record within the timeout and False on every failure (broker error, timeout, any
\* other exception).
C17_SendNeverRaises ==
    \A i \in 1..Len(SendCalls) :
        /\ SendCalls[i].result.raised = NoException
        /\ SendCalls[i].result.returned = SendCalls[i].acknowledged

\* calls of each kind were made: one acknowledged, one that failed with an exception
\* outside KafkaError
C17_Witness ==
    \E i, j \in 1..Len(SendCalls) :
        /\ SendCalls[i].acknowledged /\ SendCalls[i].result.returned
        /\ ~SendCalls[j].acknowledged /\ ~SendCalls[j].result.returned
        /\ SendRaises(SendCalls[j].message, SendCalls[j].answer) \notin KafkaErrors

-----------------------------------------------------------------------------
(* Properties of the poll loops (SpecLoop) *)

\* C18: an exception raised while a message is handled does not end the loop: the loop
\* ends only after its running flag was cleared, and until a stop is requested every
\* polled record, also one behind a failing record, is handled or waits in the batch.
C18_LoopSurvivesHandlerException ==
    /\ loop.pc = "ended" => ~loop.running
    /\ (loop.running /\ ~loop.stopped) => loop.handled \o loop.batch = SubSeq(loop.records, 1, loop.position)

\* the loop polls again with a message handled after a failing one
C18_Witness ==
    /\ loop.running /\ loop.pc = "poll" /\ loop.kind = "run_processor"
    /\ \E i, j \in 1..Len(loop.handled) :
          i < j /\ HandlerRaises(loop.handled[i]) /\ ~HandlerRaises(loop.handled[j])

-----------------------------------------------------------------------------
(* Properties of ServerDemisePipelineManager.start (SpecManager) *)

\* C19: when start has returned False, after a failed construction or a failure of a
\* later step, no worker loop was submitted and the running flag of the manager is
\* false.
C19_FailedStartLeavesNothingRunning ==
    (manager.pc = "returned" /\ manager.returned = "False")
        => (~manager.running /\ manager.workers = <<>>)

\* the worker loops submitted for the processor
LoopsOf(key) == {j \in 1..Len(manager.workers) : manager.workers[j][1] = key}

\* C35: after start has returned True the pool has as many threads as the sum of the
\* max_workers, max_workers worker loops were submitted for every stage, and no worker
\* loop waits for a thread that a never-ending loop holds.
C35_EveryWorkerLoopRuns ==
    (manager.pc = "returned" /\ manager.returned = "True") =>
       /\ manager.pool = TotalWorkers(manager.config, 1)
       /\ \A i \in 1..Len(ProcessorKeys) :
             Cardinality(LoopsOf(ProcessorKeys[i])) = manager.config[ProcessorKeys[i]][2]
       /\ manager.started = Len(manager.workers) \/ manager.started < manager.pool

\* every worker loop runs, two of them for one stage and none for another
C35_Witness ==
    /\ manager.pc = "returned"
    /\ manager.returned = "True"
    /\ manager.started = Len(manager.workers)
    /\ \E i, j \in 1..Len(ProcessorKeys) :
          /\ Cardinality(LoopsOf(ProcessorKeys[i])) = 2
          /\ Cardinality(LoopsOf(ProcessorKeys[j])) = 0

\* C36: some bound max_sessions below the number of distinct server ids of the start
\* messages limits the sessions in flight and the registered monitoring threads.
C36_SessionsBounded ==
    \E max_sessions \in 1..(Cardinality(CoolingServerIds \ {None}) - 1) :
       /\ Cardinality(DOMAIN cooling_sessions) <= max_sessions
       /\ Cardinality(DOMAIN cooling_threads) <= max_sessions

\* the polls that handed the record to its stage
DeliveriesOf(i) == GetOr(delivered, i, 0)

\* the messages sent for the record
SuccessorsOf(i) == {j \in 1..Len(topic) : topic[j].from = i}

\* C37: a stage handles every delivery of a message its filter accepts: the record has
\* as many successor messages (each with an id of its own) as it had deliveries, and the
\* external actions logged are as many as the accepted deliveries.
C37_EveryDeliveryIsExecuted ==
    /\ \A i \in 1..Len(topic) :
          LET stage == owner[topic[i].part]
          IN IF should_process_message(stage, topic[i].msg) /\ stage # "cooling"
             THEN /\ Cardinality(SuccessorsOf(i)) = DeliveriesOf(i)
                  /\ \A j, k \in SuccessorsOf(i) :
                        j # k => topic[j].msg.id # topic[k].msg.id
             ELSE SuccessorsOf(i) = {}
    /\ \A i \in 1..Len(topic) :
          (owner[topic[i].part] = "cooling" /\ should_process_message("cooling", topic[i].msg))
             => Cardinality({k \in 1..Len(inbox) : inbox[k] = topic[i].msg}) = DeliveriesOf(i)

\* a poweroff_server/pending message delivered twice, with two successor messages
C37_Witness ==
    \E i \in 1..Len(topic) :
       /\ owner[topic[i].part] = "poweroff"
       /\ should_process_message("poweroff", topic[i].msg)
       /\ DeliveriesOf(i) = 2
       /\ Cardinality(SuccessorsOf(i)) = 2

\* the session's oracle never reported the server powered on
NoViolation(m) == \A k \in 1..Len(monitor[m].reports) : ~monitor[m].reports[k]

\* the least whole number of intervals that covers the period
CeilDiv(a, b) == (a + b - 1) \div b

\* C39: in a session without violation the thread does not sleep before its first
\* check, the k-th check is made (k - 1) check intervals after the start, and the
\* completion message reports ceil(cooling_period_hours / check_interval_hours) checks.
C39_CheckSchedule ==
    \A m \in Sessions :
       NoViolation(m) =>
          /\ monitor[m].wake > infos[m].cooling_start => infos[m].check_count >= 1
          /\ infos[m].check_count >= 1 =>
                infos[m].last_check =
                    infos[m].cooling_start + (infos[m].check_count - 1) * check_interval_hours
          /\ \A i \in 1..Len(SentFor(m)) :
                IsCompletion(SentFor(m)[i].msg) =>
                   SentFor(m)[i].msg.data.cooling_completion.total_checks_performed
                       = CeilDiv(cooling_period_hours, check_interval_hours)

\* a session without violation that completed after more than one check
C39_Witness ==
    \E m \in Sessions :
       /\ NoViolation(m)
       /\ \E i \in 1..Len(SentFor(m)) :
             /\ IsCompletion(SentFor(m)[i].msg)
             /\ SentFor(m)[i].msg.data.cooling_completion.total_checks_performed > 1
             /\ SentFor(m)[i].msg.data.cooling_completion.total_checks_performed
                    = infos[m].check_count

\* C40: in the messages of a session every outcome message (cooling_violation_error,
\* cooling_error or demise_server/pending) comes after the session's
\* cooling_period_started acknowledgment.
C40_AcknowledgmentFirst ==
    \A m \in Sessions : \A i \in 1..Len(SentFor(m)) :
        IsOutcome(SentFor(m)[i].msg) =>
            \E j \in 1..(i - 1) : SentFor(m)[j].msg.action = "cooling_period_started"

-----------------------------------------------------------------------------
(* Properties of the stages on a message without server_id (SpecAccept) *)

\* the start messages without server_id the cooling monitor has accepted
AcceptedWithoutId ==
    {i \in 1..Len(delivered) :
        /\ ServerCoolingPeriodProcessor_should_process_message(delivered[i])
        /\ Falsy(ServerIdOf(delivered[i]))}

\* the terminal error messages the cooling monitor has sent for no session
ErrorsWithoutSession == {j \in 1..Len(SentFor(0)) : IsCoolingError(SentFor(0)[j].msg)}

\* C20: an accepted message whose data has no server_id gets a terminal error message
\* (status error, pipeline_complete true) and the oracle of the stage is not asked; in
\* the cooling monitor every such message has its error message, and sessions and
\* polling threads exist only for the other accepted messages.
C20_NoServerIdIsImmediateError ==
    /\ (Replied /\ Falsy(ServerIdOf(call.message)))
           => (IsTerminal(reply.msg) /\ reply.msg.status = "error" /\ ~reply.asked)
    /\ Cardinality(AcceptedWithoutId) = Cardinality(ErrorsWithoutSession)
    /\ \A m \in DOMAIN infos : ~Falsy(infos[m].server_id)
    /\ Cardinality(DOMAIN infos) + Cardinality(AcceptedWithoutId) <= Len(delivered)
    /\ DOMAIN monitor \subseteq DOMAIN infos

\* the cooling monitor has accepted a start message without server_id and has answered
\* it; no session and no thread exists
C20_Witness ==
    /\ AcceptedWithoutId # {}
    /\ ErrorsWithoutSession # {}
    /\ infos = EmptyDict /\ monitor = EmptyDict /\ cooling_sessions = EmptyDict

-----------------------------------------------------------------------------
(* Properties of _handle_message with the produce call (SpecDeliver) *)

\* C21: when a stage (Check, PowerOff or Demise) has handled an accepted message,
\* exactly one message of the stage is on the topic, whatever the outcome of the
\* produce call.
C21_ExactlyOneMessage == Replied => Len(topic) = 1

-----------------------------------------------------------------------------
(* Properties of the poll loops at a stop (SpecLoop) *)

\* C22: at the stop of the orchestrator the consumer and the producer of a stage are
\* closed only when the worker loop of the stage is not inside a run_once iteration
\* that handles its batch.
C22_CloseAfterDrain ==
    (loop.kind = "run_processor" /\ loop.closed) => loop.pc # "batch"

\* C23: after the stop request the loop polls no further records, and
\* start_consuming hands no further record to a handler.
C23_NoPollAfterStop ==
    [][loop.stopped =>
          /\ loop'.position = loop.position
          /\ loop.kind = "start_consuming" => loop'.handled = loop.handled]_vars

-----------------------------------------------------------------------------
(* Ownership of the session-map entries, under SpecCooling *)

\* C27: a polling thread never changes or deletes the map entry of another session:
\* when a step of the polling threads takes the entry of session k out of the map or
\* replaces it, the step is one of k's own thread, and the cooling_info of every
\* other session is unchanged.
C27_OnlyOwnEntry ==
    [][worker' = worker =>
          \A s \in DOMAIN cooling_sessions :
             LET k == cooling_sessions[s]
             IN /\ (s \notin DOMAIN cooling_sessions' \/ cooling_sessions'[s] # k) =>
                      (k \in DOMAIN monitor /\ monitor'[k] # monitor[k])
                /\ (k \in DOMAIN monitor /\ monitor'[k] = monitor[k]) =>
                      infos'[k] = infos[k]]_vars

-----------------------------------------------------------------------------
(* The effect of a power check, under SpecCooling *)

\* C30: a power check that finds the server powered off leaves the session map, the
\* cooling_info (status monitoring) and the topic as they are; the start of the check
\* has increased check_count by one and set last_check; check_count is the number of
\* oracle checks started in the session.
C30_PoweredOffCheckFrame ==
    [][\A m \in DOMAIN monitor' :
          /\ infos'[m].check_count =
                Len(monitor'[m].reports) + (IF monitor'[m].pc = "checking" THEN 1 ELSE 0)
          /\ (m \in DOMAIN monitor /\ monitor[m].pc = "waiting"
              /\ monitor'[m].pc = "checking") =>
                 /\ infos'[m].check_count = infos[m].check_count + 1
                 /\ infos'[m].last_check = now
                 /\ cooling_sessions' = cooling_sessions
                 /\ sent' = sent
          /\ (m \in DOMAIN monitor /\ monitor[m].pc = "checking"
              /\ monitor'[m].reports = Append(monitor[m].reports, FALSE)) =>
                 /\ cooling_sessions' = cooling_sessions
                 /\ infos' = infos
                 /\ infos[m].status = "monitoring"
                 /\ sent' = sent]_vars

\* a session in the map after two checks that found the server powered off
C30_Witness ==
    \E m \in DOMAIN monitor :
       /\ InMap(m)
       /\ monitor[m].reports = <<FALSE, FALSE>>
       /\ infos[m].check_count = 2
       /\ infos[m].last_check = now
       /\ infos[m].status = "monitoring"
       /\ \A i \in 1..Len(SentFor(m)) : ~IsOutcome(SentFor(m)[i].msg)

-----------------------------------------------------------------------------
(* Termination of the cooling sessions, under SpecCoolingLive *)

\* the first pass of the polling loop at or after cooling_end, counted from
\* cooling_start: the passes are check_interval_hours apart
FirstTickAfterEnd ==
    CHOOSE t \in 0..(cooling_period_hours + check_interval_hours) :
        /\ t % check_interval_hours = 0
        /\ t >= cooling_period_hours
        /\ t - check_interval_hours < cooling_period_hours

\* session m has reached a terminal outcome: its violation message was sent, or its
\* thread has left the loop through _handle_cooling_complete or _handle_cooling_error
Terminated(m) ==
    /\ m \in DOMAIN monitor
    /\ \/ monitor[m].pc = "done"
       \/ \E i \in 1..Len(SentFor(m)) : IsViolation(SentFor(m)[i].msg)

\* C29: under fair scheduling every accepted session eventually reaches a terminal
\* outcome (completion, violation or error) and its entry is gone from the session
\* map; the outcome is reached no later than the first pass of the polling loop at or
\* after cooling_end.
C29_EverySessionEnds ==
    /\ \A m \in 1..(MaxLiveStarts + 1) :
          (m \in DOMAIN infos) ~> (Terminated(m) /\ ~InMap(m))
    /\ [](\A m \in DOMAIN infos :
             ~Terminated(m) => now <= infos[m].cooling_start + FirstTickAfterEnd)

\* a session that ran to the first pass after cooling_end is over
C29_Witness ==
    \E m \in DOMAIN infos :
       /\ Terminated(m)
       /\ ~InMap(m)
       /\ now = infos[m].cooling_start + FirstTickAfterEnd

-----------------------------------------------------------------------------
(* Properties of ServerCoolingPeriodProcessor.stop (SpecCoolingStop) *)

\* C24: after stop the session map is empty, no polling thread makes a further oracle
\* check and no message is sent.
C24_AbandonedSessionsAreSilent ==
    [][("closed" \in DOMAIN producer) =>
          /\ cooling_sessions' = EmptyDict
          /\ \A m \in DOMAIN infos : infos'[m].check_count = infos[m].check_count
          /\ sent' = sent]_vars

-----------------------------------------------------------------------------
(* Properties of the worker pool (SpecPool) *)

\* C25: while a handler of an earlier record is running the poll loop can poll again
\* and submit the records of the next batch, and at most max_workers handlers run at
\* the same time.
C25_PollingDecoupledFromHandling ==
    /\ Cardinality(loop.active) <= loop.max_workers
    /\ (loop.active # {} /\ loop.polls < MaxPoolRecords) => ENABLED PoolPoll

\* a record of a later poll is queued or handled while a handler of an earlier poll
\* runs, with max_workers handlers running
C25_Witness ==
    /\ Cardinality(loop.active) = loop.max_workers
    /\ \E a \in loop.active :
          \E i \in 1..Len(loop.queue) : loop.queue[i].poll > a.poll

-----------------------------------------------------------------------------
(* Properties of the critical sections (SpecLock) *)

\* C26: sessions_lock is never held by a thread whose oracle query, produce or
\* inter-check sleep is in progress: the holder is always inside one of the short lock
\* blocks.
C26_LockNotHeldWhileBlocking ==
    /\ \A m \in DOMAIN monitor :
          sessions_lock = MonitorThread(m) => monitor[m].pc \in {"remove", "finally"}
    /\ \A w \in DOMAIN worker :
          sessions_lock = ProcessThread(w) =>
              worker[w].pc \in {"check", "insert", "register"}

\* while the query of one server's session is in progress, the session of another
\* server is being inserted under the lock
C26_Witness ==
    \E m \in DOMAIN monitor, w \in DOMAIN worker :
       /\ monitor[m].pc = "query"
       /\ worker[w].pc = "insert"
       /\ sessions_lock = ProcessThread(w)
       /\ worker[w].server_id # monitor[m].server_id

\* C28: every read-modify-write of the session state is one critical section: between
\* the existence check of a process_message and its insertion no other thread inserts
\* a session for the same server_id, and check_count is incremented by a thread that holds the lock.
C28_SingleCriticalSection ==
    [][/\ \A w \in DOMAIN worker :
             (worker[w].pc \in {"build", "insert"} /\ worker'[w].pc \in {"build", "insert"})
                 => worker[w].server_id \notin DOMAIN cooling_sessions'
       /\ \A m \in DOMAIN infos :
             (m \in DOMAIN infos' /\ infos'[m].check_count # infos[m].check_count)
                 => sessions_lock = MonitorThread(m)]_vars

-----------------------------------------------------------------------------
(* A start message for a server that has a session, under SpecCooling *)

\* the record the step has polled: a start message the filter accepts, for a server_id
\* the session map holds
PolledForSession ==
    /\ Len(delivered') = Len(delivered) + 1
    /\ LET message_data == delivered'[Len(delivered')]
       IN /\ ServerCoolingPeriodProcessor_should_process_message(message_data)
          /\ Get(GetOr(message_data, "data", EmptyDict), "server_id") \in
                 DOMAIN cooling_sessions

\* C31: a start message for a server_id that has a session changes no state: the
\* session map, every cooling_info and the polling threads are as before, no worker
\* goes on to an insertion, and the one message sent is the acknowledgment
\* cooling_status/info without pipeline_complete.
C31_SecondStartIsNoOp ==
    [][PolledForSession =>
          LET before == GetOr(sent, 0, <<>>)
              after == GetOr(sent', 0, <<>>)
          IN /\ cooling_sessions' = cooling_sessions
             /\ infos' = infos
             /\ monitor' = monitor
             /\ cooling_threads' = cooling_threads
             /\ worker' = worker
             /\ \A k \in DOMAIN sent \ {0} : k \in DOMAIN sent' /\ sent'[k] = sent[k]
             /\ DOMAIN sent' \subseteq DOMAIN sent \cup {0}
             /\ Len(after) = Len(before) + 1
             /\ SubSeq(after, 1, Len(before)) = before
             /\ after[Len(after)].msg.action = "cooling_status"
             /\ after[Len(after)].msg.status = "info"
             /\ "pipeline_complete" \notin DOMAIN after[Len(after)].msg]_vars

\* the acknowledgment was sent while a session that has made a check is in the map
C31_Witness ==
    /\ 0 \in DOMAIN sent
    /\ sent[0][Len(sent[0])].msg.action = "cooling_status"
    /\ sent[0][Len(sent[0])].at = now
    /\ \E m \in DOMAIN monitor : InMap(m) /\ infos[m].check_count > 0

-----------------------------------------------------------------------------
(* The trace of a pipeline run, under Spec *)

\* the place of the check_server message that began the run of record i
RequestOf(i) == CHOOSE j \in Requests : topic[j].run = topic[i].run

\* C32: every message a stage puts on the topic carries, as original_request_id, the
\* id of the check_server message that began its run.
C32_TracesFirstMessage ==
    \A i \in 1..Len(topic) :
       topic[i].from # 0 =>
          /\ "original_request_id" \in DOMAIN topic[i].msg
          /\ topic[i].msg.original_request_id = topic[RequestOf(i)].msg.id

\* a run whose third stage has emitted its message: the id was handed on twice
C32_Witness ==
    \E i \in 1..Len(topic) :
       /\ topic[i].from # 0
       /\ topic[i].msg.action = "demise_complete"
       /\ topic[i].msg.status = "completed"
       /\ topic[i].msg.original_request_id = topic[RequestOf(i)].msg.id
       /\ topic[topic[i].from].msg.action = "demise_server"

-----------------------------------------------------------------------------
(* The vocabulary of the messages of the cooling monitor, under SpecCooling *)

\* C33: every message sent has an action of the nine listed actions and a status of
\* the seven listed statuses.
C33_ListedActionsAndStatuses ==
    \A k \in DOMAIN sent : \A i \in 1..Len(sent[k]) :
       /\ sent[k][i].msg.action \in
             {"check_server", "poweroff_server", "start_cooling_period", "demise_server",
              "cooling_period_started", "cooling_violation_error", "cooling_status_update",
              "demise_complete", "error"}
       /\ sent[k][i].msg.status \in
             {"pending", "monitoring", "completed", "failed", "error", "violation_error",
              "info"}

-----------------------------------------------------------------------------
(* Properties of the filters (SpecFilter) *)

====
